---------------------------- MODULE Spec2Model ----------------------------
(***************************************************************************)
(* Netivot address geocoding: the row classifier (rowProcessor.ts), the    *)
(* hybrid geocoder chain (hybridGeocoder.ts, geocoding.ts), the batch      *)
(* passes of the two application flows (App.tsx, excel.ts) as one state    *)
(* machine.                                                                *)
(*                                                                         *)
(* Conventions of the model                                                *)
(*  - A coordinate is a record [def, lat, lon].  def = FALSE stands for an *)
(*    absent (undefined) coordinate.  lat and lon are integers: metres     *)
(*    north of the parallel NETIVOT_BOUNDS.minLat and metres east of the   *)
(*    meridian NETIVOT_BOUNDS.minLon, so that the municipal box is         *)
(*    [minLat, maxLat] x [minLon, maxLon] with minLat = minLon = 0.        *)
(*  - distanceMeters is the planar distance on that grid rounded up to a   *)
(*    whole metre.  The code compares a distance only with whole numbers   *)
(*    of metres (100, 250, 500, 1000, 1200, 1500, 3000, 30), and for a     *)
(*    whole t:  d > t  iff  ceil(d) > t,  d <= t  iff  ceil(d) <= t.       *)
(*  - A confidence is an integer number of hundredths (0.75 is 75).        *)
(*  - A message is the sequence of the text fragments the code             *)
(*    concatenates; the empty message is << >>.                            *)
(***************************************************************************)
EXTENDS Integers, Sequences, FiniteSets, TLC

(***************************************************************************)
(* constants.ts: NETIVOT_BOUNDS on the metre grid (0.12 degrees of         *)
(* latitude, 0.17 degrees of longitude at latitude 31.46).                 *)
(***************************************************************************)
minLat == 0
maxLat == 13343
minLon == 0
maxLon == 16124

(***************************************************************************)
(* types: ProcessingStatus, AddressType, Coordinates                       *)
(***************************************************************************)
ProcessingStatus ==
    {"PENDING", "CONFIRMED", "UPDATED", "NEEDS_REVIEW", "NOT_FOUND", "SKIPPED"}

AddressType == {"STREET_NUMBER", "INTERSECTION", "POI", "UNKNOWN"}

NoCoords == [def |-> FALSE, lat |-> 0, lon |-> 0]

Coords(lat, lon) == [def |-> TRUE, lat |-> lat, lon |-> lon]

(***************************************************************************)
(* rowProcessor.ts: distanceMeters, on the metre grid, rounded up.         *)
(***************************************************************************)
RECURSIVE CeilSqrt(_, _, _)
CeilSqrt(q, lo, hi) ==
    \* least d in lo..hi with d*d >= q (hi*hi >= q is given)
    IF lo >= hi THEN hi
    ELSE LET mid == (lo + hi) \div 2
         IN  IF mid * mid >= q THEN CeilSqrt(q, lo, mid)
             ELSE CeilSqrt(q, mid + 1, hi)

Abs(n) == IF n < 0 THEN -n ELSE n

distanceMeters(lat1, lon1, lat2, lon2) ==
    LET dLat == Abs(lat2 - lat1)
        dLon == Abs(lon2 - lon1)
    IN  CeilSqrt(dLat * dLat + dLon * dLon, 0, dLat + dLon)

(***************************************************************************)
(* rowProcessor.ts: isWithinNetivotBounds                                  *)
(***************************************************************************)
isWithinNetivotBounds(lat, lon) ==
    /\ lat >= minLat
    /\ lat <= maxLat
    /\ lon >= minLon
    /\ lon <= maxLon

(***************************************************************************)
(* rowProcessor.ts: mapConfidenceToStatus                                  *)
(***************************************************************************)
\* the thresholds with NEEDS_REVIEW beginning above 0.6 instead of at 0.6
mapConfidenceToStatusAbove(result, inBounds) ==
    IF result.source = "GIS"
    THEN IF result.confidence >= 80 THEN "CONFIRMED"
         ELSE IF result.confidence > 60 THEN "NEEDS_REVIEW"
         ELSE "NOT_FOUND"
    ELSE IF result.source = "GOVMAP"
    THEN IF inBounds /\ result.confidence >= 75 THEN "CONFIRMED"
         ELSE IF result.confidence > 60 THEN "NEEDS_REVIEW"
         ELSE "NOT_FOUND"
    ELSE IF result.confidence >= 90 THEN "CONFIRMED"
         ELSE IF result.confidence > 60 THEN "NEEDS_REVIEW"
         ELSE "NOT_FOUND"

mapConfidenceToStatus(result, inBounds) ==
    IF result.source = "GIS"
    THEN IF result.confidence >= 80 THEN "CONFIRMED"
         ELSE IF result.confidence >= 60 THEN "NEEDS_REVIEW"
         ELSE "NOT_FOUND"
    ELSE IF result.source = "GOVMAP"
    THEN IF inBounds /\ result.confidence >= 75 THEN "CONFIRMED"
         ELSE IF result.confidence >= 60 THEN "NEEDS_REVIEW"
         ELSE "NOT_FOUND"
    ELSE IF result.confidence >= 90 THEN "CONFIRMED"
         ELSE IF result.confidence >= 60 THEN "NEEDS_REVIEW"
         ELSE "NOT_FOUND"

(***************************************************************************)
(* rowProcessor.ts: generateMessage (the result is present)                *)
(***************************************************************************)
generateMessage(result) ==
    IF result.source = "GIS" /\ result.confidence >= 90
    THEN IF result.method = "GIS_EXACT" THEN "found in municipal GIS (high accuracy)"
         ELSE "found in GIS by interpolation (medium-high accuracy)"
    ELSE IF result.source = "GIS" /\ result.confidence >= 50
    THEN "found in GIS (medium accuracy)"
    ELSE IF result.source = "GOVMAP"
    THEN "found in GovMap (medium accuracy)"
    ELSE IF result.source = "NOMINATIM"
    THEN IF result.method = "NOMINATIM_BBOX_RESTRICTED"
         THEN "found in Nominatim, restricted to Netivot (medium accuracy)"
         ELSE IF result.method = "NOMINATIM_OUT_OF_BOUNDS"
         THEN "found in Nominatim but outside Netivot (low accuracy)"
         ELSE "found in Nominatim (medium accuracy)"
    ELSE IF result.confidence >= 90 THEN "valid address, coordinates used"
    ELSE IF result.confidence >= 50 THEN "found but needs manual review (medium accuracy)"
    ELSE "found with low accuracy, needs manual handling"

(***************************************************************************)
(* rowProcessor.ts: applyGeocodingResult, in the order of its statements.  *)
(***************************************************************************)
\* lines 564-571: tentative status, then the out-of-bounds downgrade
StatusAfterBoundsNoDowngrade(result, inBounds) ==
    mapConfidenceToStatus(result, inBounds)

StatusAfterBounds(result, inBounds) ==
    LET status == mapConfidenceToStatus(result, inBounds)
    IN  IF ~inBounds /\ status = "CONFIRMED" THEN "NEEDS_REVIEW" ELSE status

\* lines 574-584: the distance to the original coordinates (0 when absent;
\* every use is guarded by hasOriginalCoords)
DistanceToOriginal(row, result) ==
    IF row.originalCoords.def
    THEN distanceMeters(row.originalCoords.lat, row.originalCoords.lon,
                        result.lat, result.lon)
    ELSE 0

isIntersectionOrPoi(addressType) ==
    addressType = "INTERSECTION" \/ addressType = "POI"

isTrustedSource(result) ==
    result.source = "GIS" \/ result.source = "GOVMAP"

\* lines 591, 671
isForceConfirmedIntersectionPoi(result, addressType, inBounds) ==
    isIntersectionOrPoi(addressType) /\ inBounds /\ isTrustedSource(result)
        /\ result.confidence >= 70

\* lines 596, 672
isForceConfirmedStreetNumberGIS(result, addressType, inBounds) ==
    addressType = "STREET_NUMBER" /\ result.source = "GIS" /\ inBounds
        /\ result.confidence >= 90

\* lines 601, 673
isForceConfirmedStreetNumberGovmap(result, addressType, inBounds) ==
    addressType = "STREET_NUMBER" /\ result.source = "GOVMAP" /\ inBounds
        /\ result.confidence >= 75

\* the maxima with the open-data StreetNumber maximum as loose as the
\* authoritative one
maxAllowedDistanceLoose(result, addressType) ==
    IF addressType = "STREET_NUMBER"
    THEN IF result.source = "GOVMAP" THEN 1200 ELSE 1000
    ELSE 1500

\* lines 615-627, 677-688
maxAllowedDistance(result, addressType) ==
    IF addressType = "STREET_NUMBER"
    THEN IF result.source = "GIS" THEN 1000
         ELSE IF result.source = "GOVMAP" THEN 1200
         ELSE 500
    ELSE 1500

\* lines 590-635 with the distance gate of rule 4 left out
StatusAfterDistanceRulesNoGate(status, row, result, addressType, inBounds) ==
    LET distance == DistanceToOriginal(row, result)
    IN  IF isForceConfirmedIntersectionPoi(result, addressType, inBounds)
        THEN "CONFIRMED"
        ELSE IF isForceConfirmedStreetNumberGIS(result, addressType, inBounds)
        THEN "CONFIRMED"
        ELSE IF isForceConfirmedStreetNumberGovmap(result, addressType, inBounds)
        THEN IF row.originalCoords.def /\ distance > 3000 /\ status = "CONFIRMED"
             THEN "NEEDS_REVIEW" ELSE status
        ELSE status

\* lines 590-635: rules 1 to 4
StatusAfterDistanceRules(status, row, result, addressType, inBounds) ==
    LET distance == DistanceToOriginal(row, result)
    IN  IF isForceConfirmedIntersectionPoi(result, addressType, inBounds)
        THEN "CONFIRMED"
        ELSE IF isForceConfirmedStreetNumberGIS(result, addressType, inBounds)
        THEN "CONFIRMED"
        ELSE IF isForceConfirmedStreetNumberGovmap(result, addressType, inBounds)
        THEN IF row.originalCoords.def /\ distance > 3000 /\ status = "CONFIRMED"
             THEN "NEEDS_REVIEW" ELSE status
        ELSE IF row.originalCoords.def
                /\ distance > maxAllowedDistance(result, addressType)
                /\ status = "CONFIRMED"
             THEN "NEEDS_REVIEW" ELSE status

\* one upgrade distance for every kind
upgradeThresholdUniform(addressType) == 100

\* lines 641, 650, 698
upgradeThreshold(addressType) ==
    IF addressType = "STREET_NUMBER" THEN 100 ELSE 250

\* lines 638-658 with the comparison of the distance turned round
StatusAfterUpgradeFar(status, row, result, addressType, inBounds) ==
    LET distance == DistanceToOriginal(row, result)
    IN  IF row.originalCoords.def /\ inBounds
           /\ (addressType = "STREET_NUMBER" \/ isIntersectionOrPoi(addressType))
           /\ distance >= upgradeThreshold(addressType)
           /\ status # "CONFIRMED"
        THEN IF status = "NOT_FOUND" THEN "NEEDS_REVIEW"
             ELSE IF status = "NEEDS_REVIEW" THEN "CONFIRMED"
             ELSE status
        ELSE status

\* lines 638-658 with an upgrade that goes to CONFIRMED at once
StatusAfterUpgradeToConfirmed(status, row, result, addressType, inBounds) ==
    IF row.originalCoords.def /\ inBounds
       /\ (addressType = "STREET_NUMBER" \/ isIntersectionOrPoi(addressType))
       /\ DistanceToOriginal(row, result) <= upgradeThreshold(addressType)
    THEN "CONFIRMED"
    ELSE status

\* lines 638-658: the distance-based upgrade, one step
StatusAfterUpgrade(status, row, result, addressType, inBounds) ==
    LET distance == DistanceToOriginal(row, result)
    IN  IF row.originalCoords.def /\ inBounds
           /\ (addressType = "STREET_NUMBER" \/ isIntersectionOrPoi(addressType))
           /\ distance <= upgradeThreshold(addressType)
           /\ status # "CONFIRMED"
        THEN IF status = "NOT_FOUND" THEN "NEEDS_REVIEW"
             ELSE IF status = "NEEDS_REVIEW" THEN "CONFIRMED"
             ELSE status
        ELSE status

\* lines 707-714
mediumAccuracyAutoConfirmed(status, result, addressType, inBounds) ==
    status = "NEEDS_REVIEW" /\ addressType = "STREET_NUMBER" /\ inBounds
        /\ (result.source = "GIS" \/ result.source = "GOVMAP")
        /\ result.confidence >= 75

\* lines 719-726 without the lower bound on the confidence
nominatimAnyConfidenceAutoConfirmed(status, result, addressType, inBounds) ==
    status = "NEEDS_REVIEW" /\ addressType = "POI"
        /\ result.source = "NOMINATIM" /\ inBounds

\* lines 719-726
nominatimLowConfidenceAutoConfirmed(status, result, addressType, inBounds) ==
    status = "NEEDS_REVIEW" /\ addressType = "POI"
        /\ result.source = "NOMINATIM" /\ inBounds
        /\ result.confidence >= 60

\* the status of line 703 returned as it is, without the final post-processing
StatusWithoutPostProcessing(status, result, addressType, inBounds) == status

\* lines 704-726: the final post-processing
StatusAfterPostProcessing(status, result, addressType, inBounds) ==
    LET s1 == IF mediumAccuracyAutoConfirmed(status, result, addressType, inBounds)
              THEN "CONFIRMED" ELSE status
    IN  IF nominatimLowConfidenceAutoConfirmed(s1, result, addressType, inBounds)
        THEN "CONFIRMED" ELSE s1

\* the status before the final post-processing (the value of `status` at
\* line 703)
StatusBeforePostProcessing(row, result, addressType) ==
    LET inBounds == isWithinNetivotBounds(result.lat, result.lon)
        s0 == StatusAfterBounds(result, inBounds)
        s1 == StatusAfterDistanceRules(s0, row, result, addressType, inBounds)
    IN  StatusAfterUpgrade(s1, row, result, addressType, inBounds)

FinalStatus(row, result, addressType) ==
    StatusAfterPostProcessing(StatusBeforePostProcessing(row, result, addressType),
        result, addressType, isWithinNetivotBounds(result.lat, result.lon))

\* lines 660-702: the message and its suffixes
ResultMessage(row, result, addressType) ==
    LET inBounds == isWithinNetivotBounds(result.lat, result.lon)
        distance == DistanceToOriginal(row, result)
        status   == StatusBeforePostProcessing(row, result, addressType)
        forced   ==
            \/ isForceConfirmedIntersectionPoi(result, addressType, inBounds)
            \/ isForceConfirmedStreetNumberGIS(result, addressType, inBounds)
            \/ isForceConfirmedStreetNumberGovmap(result, addressType, inBounds)
    IN  <<generateMessage(result)>>
        \o (IF ~inBounds THEN <<" (outside Netivot)">> ELSE << >>)
        \o (IF row.originalCoords.def /\ ~forced
               /\ distance > maxAllowedDistance(result, addressType)
            THEN <<" (distance too large vs original coords)">> ELSE << >>)
        \o (IF row.originalCoords.def /\ inBounds
               /\ distance <= upgradeThreshold(addressType)
               /\ status = "CONFIRMED"
            THEN <<" (verified against original coordinates)">> ELSE << >>)

\* lines 550-798
applyGeocodingResult(row, result, addressType) ==
    [row EXCEPT !.status = FinalStatus(row, result, addressType),
                !.finalCoords = Coords(result.lat, result.lon),
                !.message = ResultMessage(row, result, addressType)]


(***************************************************************************)
(* State                                                                   *)
(***************************************************************************)
VARIABLES
    clsRow,      \* applyGeocodingResult: the row argument
    clsResult,   \* applyGeocodingResult: the geocodingResult argument
    clsType,     \* applyGeocodingResult: the addressType argument
    clsOut,      \* applyGeocodingResult: the row returned (PENDING before)
    uploadedFile,         \* App.tsx state: the file chosen, [def, data]
    rows,                 \* App.tsx state: the rows shown
    isProcessing,         \* App.tsx state
    error,                \* App.tsx state: "" stands for null
    geocoderInitialized,  \* excel.ts
    initialized,          \* hybridGeocoder.ts state.initialized
    addressLayerLoaded,   \* gisService.ts
    addressFeatures,      \* gisService.ts
    streetSegmentsLoaded, \* gisService.ts
    pc,          \* where the pass stands: "idle", "reading", "loadLayer",
                 \* "loadSegments", "rows", "govmap", "govmap2", "nominatim",
                 \* "nominatimQuery", "done"
    direct,      \* the pass was entered through processExcelRows
    addressRows, \* processRows: the argument rows
    results,     \* processRows: the local results
    req,         \* the request of the row being processed
    inflight,    \* the provider calls awaited at this moment
    chain,       \* the lookups of the current request that have returned
    traces,      \* for each row of results: its result and where it came from
    geocodeCache, \* geocoding.ts: the cache, a set of [address, coords]
    queue,        \* batchGeocode: the addresses not yet taken by a worker
    workers,      \* batchGeocode: where each worker stands, [pc, address]
    reading,      \* App.tsx handleFileUpload: the file readExcel is reading
    handled,      \* batchGeocode: the addresses processItem has returned for,
                  \* [address, times, how: "cache" or "chain"]
    govmapBuild,  \* which geocodeWithGovmap the build holds: "stub", "dev",
                  \* "prod" or "plain"
    caller,       \* the loop the calls are made from: "batchGeocode",
                  \* "processRows", or "" when none runs
    todo,         \* the addresses the loop has not taken yet
    work,         \* the address being geocoded: [address, kind, early,
                  \* matched, street, houseNumber, queries] as processRow,
                  \* the layer and buildNominatimQueries see it, within: the
                  \* function that called geocodeWithGovmap, q: the query of
                  \* geocoding.ts geocodeWithNominatim, done: "" while it
                  \* is being resolved, then "found" or "failed" (the
                  \* providers were asked), "hit" (it was in the cache) or
                  \* "local" (processRow needed no provider)
    awaiting,     \* the await the loop stands at
    call,         \* the request in flight, [def, provider, query, armed, at,
                  \* prev]: armed says that a timer will abort it, prev when
                  \* the request before it went to the same provider (-1: none)
    lastAt,       \* for each provider, when the last request to it was sent
    timedOut,     \* the [provider, query] of the address being geocoded whose
                  \* request the timer has aborted
    now,          \* milliseconds since the loop started
    addressLayerPath,       \* gisService.ts: "" stands for null
    uniqueStreetCandidates, \* gisService.ts _uniqueStreetCandidates: Null,
                            \* or the names fuzzy matching goes through
    streetSegments,         \* gisService.ts: the street names loaded
    streetSegmentsPath,     \* the path streetSegments was loaded from (the
                            \* code does not keep it)
    loading,      \* the loader calls that await their fetch, [loader, path]
    lastLoad,     \* the last loader call: [def, loader, path, current: the
                  \* loader held the data of that path, fetched: it fetched]
    lastLookup,   \* the last lookupAddress on the features now loaded
    normRaw,      \* an address string handed to normalizeAddress
    normOnce,     \* normalizeAddress(normRaw), Null for null
    normTwice,    \* normalizeAddress of that result
    normPc,       \* "raw", "once", "twice": how far the two calls have come
    eventQueue,   \* ingestClient.ts: the number of events queued
    isSending,    \* ingestClient.ts
    consecutiveFailures,  \* ingestClient.ts
    disabledUntil,        \* ingestClient.ts: [def, left], the ticks left to
                          \* the end of the cooldown; def = FALSE for null
    sendTimers,   \* the timers of scheduleSend: the ticks each has left
    sinceSend,    \* ticks since the last batch send started, -1 before the
                  \* first; counted up to the abort timer while the request
                  \* is out, and up to the send delay afterwards
    sendGap,      \* ticks between the starts of the last two batch sends,
                  \* -1 before the second; counted up to the send delay
    hits,         \* api/geocode.ts: client IP -> [def, reset, count]
    proxyCache,   \* api/geocode.ts cache: key -> [def, expires]
    proxyNow,     \* Date.now() of the proxy's process, in milliseconds
    served,       \* history, per client IP: [def, start, passed], the time
                  \* of the first counted request of the IP's latest window
                  \* and the GET requests of the window the limiter let pass
    lastResponse  \* history: the request answered last and its answer

clsVars == <<clsRow, clsResult, clsType, clsOut>>

appVars == <<uploadedFile, rows, isProcessing, error>>

gisVars ==
    <<geocoderInitialized, initialized, addressLayerLoaded, addressFeatures,
      streetSegmentsLoaded>>

passVars == <<pc, direct, addressRows, results, req, inflight, chain, traces>>

rowsVars == <<appVars, gisVars, passVars>>

batchVars == <<geocodeCache, queue, workers, reading, handled>>

netVars ==
    <<govmapBuild, caller, todo, work, awaiting, call, lastAt, timedOut, now>>

loadVars ==
    <<addressLayerPath, uniqueStreetCandidates, streetSegments,
      streetSegmentsPath, loading, lastLoad, lastLookup>>

normVars == <<normRaw, normOnce, normTwice, normPc>>

ingestVars ==
    <<eventQueue, isSending, consecutiveFailures, disabledUntil, sendTimers,
      sinceSend, sendGap>>

limitVars == <<hits, proxyCache, proxyNow, served, lastResponse>>

restVars == <<normVars, ingestVars, limitVars>>

vars == <<clsVars, rowsVars, batchVars, netVars, loadVars, restVars>>

NoFile == [def |-> FALSE, readable |-> FALSE, data |-> << >>]

NoRequest ==
    [kind |-> "", street |-> << >>, houseNumber |-> 0, rawText |-> << >>,
     queries |-> << >>, q |-> 0]

\* batchGeocode is called with three workers (App.tsx startProcessing)
Concurrency == 3

\* geocoding.ts: the cache is empty, no batch runs; App.tsx: no file is
\* being read
BatchQuiet ==
    /\ geocodeCache = {}
    /\ queue = << >>
    /\ handled = {}
    /\ workers = [w \in 1..Concurrency |-> [pc |-> "idle", address |-> << >>]]
    /\ reading = NoFile

Providers == {"GOVMAP", "NOMINATIM"}

NoItem ==
    [address |-> << >>, kind |-> "", early |-> FALSE, matched |-> FALSE,
     street |-> << >>, houseNumber |-> 0, queries |-> << >>, within |-> "",
     q |-> 0, done |-> ""]

NoCall ==
    [def |-> FALSE, provider |-> "", query |-> << >>, armed |-> FALSE, at |-> 0,
     prev |-> -1]

\* no loop is making provider calls
NetQuiet ==
    /\ govmapBuild = "stub"
    /\ caller = ""
    /\ todo = << >>
    /\ work = NoItem
    /\ awaiting = "idle"
    /\ call = NoCall
    /\ lastAt = [p \in Providers |-> -1]
    /\ timedOut = {}
    /\ now = 0

NoLoad ==
    [def |-> FALSE, loader |-> "", path |-> "", current |-> FALSE,
     fetched |-> FALSE]

NoLookup ==
    [def |-> FALSE, streetName |-> << >>, houseNumber |-> 0,
     consulted |-> FALSE, candidates |-> << >>, streetFeatures |-> << >>,
     fuzzyUsed |-> FALSE, lat |-> 0, lon |-> 0, confidence |-> 0,
     found |-> FALSE]

\* no address string is being normalized
NormQuiet ==
    /\ normRaw = << >>
    /\ normOnce = [def |-> FALSE, v |-> << >>]
    /\ normTwice = [def |-> FALSE, v |-> << >>]
    /\ normPc = "raw"

\* ingestClient.ts as the module is loaded
IngestQuiet ==
    /\ eventQueue = 0
    /\ isSending = FALSE
    /\ consecutiveFailures = 0
    /\ disabledUntil = [def |-> FALSE, left |-> 0]
    /\ sendTimers = {}
    /\ sinceSend = -1
    /\ sendGap = -1

ClientIps == {"10.0.0.1", "10.0.0.2"}

CacheKeys == {"auto:herzl 4", "govmap:herzl 4"}

NoRecord == [def |-> FALSE, reset |-> 0, count |-> 0]

NoEntry == [def |-> FALSE, expires |-> 0]

NoWindow == [def |-> FALSE, start |-> 0, passed |-> 0]

NoResponse ==
    [def |-> FALSE, ip |-> "", method |-> "", status |-> 0, upstream |-> 0,
     further |-> FALSE]

\* api/geocode.ts as the module is loaded: both maps empty
LimitQuiet ==
    /\ hits = [ip \in ClientIps |-> NoRecord]
    /\ proxyCache = [k \in CacheKeys |-> NoEntry]
    /\ proxyNow = 0
    /\ served = [ip \in ClientIps |-> NoWindow]
    /\ lastResponse = NoResponse

RestQuiet ==
    /\ NormQuiet
    /\ IngestQuiet
    /\ LimitQuiet

\* gisService.ts as the module is loaded, with no loader call made
LoadQuiet ==
    /\ addressLayerPath = ""
    /\ uniqueStreetCandidates = [def |-> FALSE, v |-> << >>]
    /\ streetSegments = << >>
    /\ streetSegmentsPath = ""
    /\ loading = << >>
    /\ lastLoad = NoLoad
    /\ lastLookup = NoLookup

\* the application as it is loaded: no file, nothing initialized
RowsQuiet ==
    /\ uploadedFile = NoFile
    /\ rows = << >>
    /\ isProcessing = FALSE
    /\ error = ""
    /\ geocoderInitialized = FALSE
    /\ initialized = FALSE
    /\ addressLayerLoaded = FALSE
    /\ addressFeatures = << >>
    /\ streetSegmentsLoaded = FALSE
    /\ pc = "idle"
    /\ direct = FALSE
    /\ addressRows = << >>
    /\ results = << >>
    /\ req = NoRequest
    /\ inflight = << >>
    /\ chain = << >>
    /\ traces = << >>

\* excel.ts convertRawDataToAddressRows: a row as it enters a pass
NewRow(address, normalizedAddress, originalCoords) ==
    [address |-> address,
     normalizedAddress |-> normalizedAddress,
     originalCoords |-> originalCoords,
     finalCoords |-> NoCoords,
     status |-> "PENDING",
     message |-> << >>]

(***************************************************************************)
(* The classifier on its own: every result, kind and prior coordinate.     *)
(***************************************************************************)
Confidences == {0, 30, 49, 50, 59, 60, 69, 70, 74, 75, 79, 80, 89, 90, 100}

SourceMethods ==
    {<<"GIS", "GIS_EXACT">>, <<"GIS", "GIS_INTERPOLATED">>,
     <<"GOVMAP", "GEOCODE">>,
     <<"NOMINATIM", "NOMINATIM">>,
     <<"NOMINATIM", "NOMINATIM_BBOX_RESTRICTED">>,
     <<"NOMINATIM", "NOMINATIM_OUT_OF_BOUNDS">>}

\* a point well inside the box, one on its northern edge, one just north of
\* it, one west of it
ResultPoints ==
    {<<6000, 8000>>, <<maxLat, 8000>>, <<maxLat + 1, 8000>>, <<6000, minLon - 500>>}

\* displacements (north, east) of the prior coordinate from the result, on
\* both sides of every distance the classifier compares with
OrigOffsets ==
    {<<0, 0>>, <<0, 99>>, <<0, 100>>, <<0, 101>>, <<60, 80>>, <<61, 80>>,
     <<0, 250>>, <<0, 251>>, <<150, 200>>, <<151, 200>>,
     <<0, 500>>, <<0, 501>>, <<0, 1000>>, <<0, 1001>>,
     <<0, 1200>>, <<0, 1201>>, <<0, 1500>>, <<0, 1501>>, <<0, 2000>>,
     <<0, 3000>>, <<0, 3001>>, <<-1800, 2400>>, <<-1801, 2400>>}

ClassifierResults ==
    {[lat |-> p[1], lon |-> p[2], confidence |-> c, source |-> sm[1], method |-> sm[2]] :
        p \in ResultPoints, c \in Confidences, sm \in SourceMethods}

OriginalCoordsOf(result) ==
    {NoCoords} \cup {Coords(result.lat + o[1], result.lon + o[2]) : o \in OrigOffsets}

ClassifyInit ==
    /\ clsResult \in ClassifierResults
    /\ clsType \in {"STREET_NUMBER", "INTERSECTION", "POI"}
    /\ \E oc \in OriginalCoordsOf(clsResult) :
          clsRow = NewRow(<<"w1", "5">>, [def |-> FALSE, v |-> << >>], oc)
    /\ clsOut = clsRow
    /\ RowsQuiet
    /\ BatchQuiet
    /\ NetQuiet
    /\ LoadQuiet
    /\ RestQuiet

\* processStreetNumberAddress / processIntersectionOrPoi hand a result to
\* applyGeocodingResult
ClassifyApply ==
    /\ clsOut.status = "PENDING"
    /\ clsOut' = applyGeocodingResult(clsRow, clsResult, clsType)
    /\ UNCHANGED <<clsRow, clsResult, clsType>>
    /\ UNCHANGED <<rowsVars, batchVars, netVars, loadVars, restVars>>

ClassifyNext == ClassifyApply

SpecClassify == ClassifyInit /\ [][ClassifyNext]_vars

(***************************************************************************)
(* Properties of the classifier                                            *)
(***************************************************************************)
Applied == clsOut.status # "PENDING"

ClsInBounds ==
    /\ clsResult.lat >= minLat /\ clsResult.lat <= maxLat
    /\ clsResult.lon >= minLon /\ clsResult.lon <= maxLon

ClsHasOriginal == clsRow.originalCoords.def

ClsDistance ==
    distanceMeters(clsRow.originalCoords.lat, clsRow.originalCoords.lon,
                   clsResult.lat, clsResult.lon)

\* C1: a result whose coordinates lie outside the municipal box never leaves
\* the classifier with status CONFIRMED, whatever its source, confidence,
\* address kind and distance to the prior coordinate.
C1_OutsideNeverConfirmed ==
    (Applied /\ ~ClsInBounds) => clsOut.status # "CONFIRMED"

\* an out-of-bounds result whose tentative status is CONFIRMED has been
\* classified, and came out NEEDS_REVIEW
C1_Witness ==
    /\ Applied /\ ~ClsInBounds
    /\ clsResult.source = "GIS" /\ clsResult.confidence >= 80
    /\ clsOut.status = "NEEDS_REVIEW"
    /\ clsOut.finalCoords = Coords(clsResult.lat, clsResult.lon)

\* the statement of C2 as the specification words it: with a prior
\* coordinate, every combination but a trusted high-confidence StreetNumber
\* match that lies farther than its maximum does not end CONFIRMED
ClsTrustedHighConfidenceStreetNumber ==
    /\ clsType = "STREET_NUMBER" /\ ClsInBounds
    /\ \/ clsResult.source = "GIS" /\ clsResult.confidence >= 90
       \/ clsResult.source = "GOVMAP" /\ clsResult.confidence >= 75

ClsMaximumDistance ==
    IF clsType = "STREET_NUMBER"
    THEN IF clsResult.source = "NOMINATIM" THEN 500
         ELSE IF clsResult.source = "GIS" THEN 1000 ELSE 1200
    ELSE 1500

ClsForceConfirmedIntersectionPoi ==
    /\ clsType \in {"INTERSECTION", "POI"} /\ ClsInBounds
    /\ clsResult.source \in {"GIS", "GOVMAP"} /\ clsResult.confidence >= 70

\* the final narrow upgrade rule
ClsNarrowUpgrade ==
    \/ /\ clsType = "STREET_NUMBER" /\ ClsInBounds
       /\ clsResult.source \in {"GIS", "GOVMAP"} /\ clsResult.confidence >= 75
    \/ /\ clsType = "POI" /\ ClsInBounds
       /\ clsResult.source = "NOMINATIM" /\ clsResult.confidence >= 60

StatusRank(status) ==
    IF status = "CONFIRMED" THEN 2 ELSE IF status = "NEEDS_REVIEW" THEN 1 ELSE 0

\* C3: with the result and the address kind fixed, the final status at a
\* greater distance to the prior coordinate is never better than the final
\* status at a smaller one (NOT_FOUND < NEEDS_REVIEW < CONFIRMED).
C3_DistanceMonotone ==
    (Applied /\ ClsHasOriginal) =>
        \A oc \in OriginalCoordsOf(clsResult) :
            (oc.def /\ distanceMeters(oc.lat, oc.lon, clsResult.lat, clsResult.lon)
                          >= ClsDistance)
            => StatusRank(applyGeocodingResult(
                   [clsRow EXCEPT !.originalCoords = oc], clsResult, clsType).status)
                 <= StatusRank(clsOut.status)

\* a result classified CONFIRMED at 100 m or less that the same classifier
\* gives NEEDS_REVIEW at a greater distance
C3_Witness ==
    /\ Applied /\ ClsHasOriginal /\ ClsDistance <= 100
    /\ clsOut.status = "CONFIRMED"
    /\ \E oc \in OriginalCoordsOf(clsResult) :
          /\ oc.def
          /\ distanceMeters(oc.lat, oc.lon, clsResult.lat, clsResult.lon) > ClsDistance
          /\ applyGeocodingResult([clsRow EXCEPT !.originalCoords = oc],
                                  clsResult, clsType).status = "NEEDS_REVIEW"

(***************************************************************************)
(* Address strings.                                                        *)
(*                                                                         *)
(* An address string is the sequence of its tokens: words, digit runs and  *)
(* the punctuation marks "," "/" "-".  A comma is written directly after   *)
(* the token before it and is followed by a space; "/" and "-" are written *)
(* without spaces around them; every other pair of neighbours is separated *)
(* by one space.  Rehov, Rah and RahApos stand for the Hebrew street       *)
(* prefixes (rehov, its abbreviation, the abbreviation with apostrophe),   *)
(* VeRehov for "and" joined to the prefix (ve-rehov), Netivot for the      *)
(* Hebrew name of the city; the other words are street and                 *)
(* place names none of which is a neighbourhood name of                    *)
(* NEIGHBORHOOD_PATTERNS or a key of the replacement dictionary.           *)
(*                                                                         *)
(* JavaScript's \b is an ASCII word boundary: between a space (or the      *)
(* start of the string) and a Hebrew letter there is none.  A pattern of   *)
(* the form /\b<Hebrew word>.../ therefore matches only directly after a   *)
(* digit, a Latin letter or "_", which no string written as above          *)
(* contains.  The operators below follow the patterns as they execute.     *)
(***************************************************************************)
Rehov == "Rehov"
Rah == "Rah"
RahApos == "Rah'"
Netivot == "Netivot"
VeRehov == "VeRehov"
Comma == ","
Slash == "/"
Dash == "-"

NumTokens == {"0", "3", "5", "7", "9", "10", "11"}

\* parseInt(t, 10) of a digit run
NumVal(t) ==
    CASE t = "0" -> 0 [] t = "3" -> 3 [] t = "5" -> 5 [] t = "7" -> 7
      [] t = "9" -> 9 [] t = "10" -> 10 [] t = "11" -> 11

\* String(n) of a number
NumStr(n) == CHOOSE t \in NumTokens : NumVal(t) = n

IsNum(t) == t \in NumTokens

\* the number of characters of a token
TokLen(t) ==
    CASE t \in {Rehov, "Herzl", "Haim"} -> 4
      [] t = Netivot -> 6
      [] t \in {VeRehov, "Weizmann"} -> 5
      [] t \in {Rah, "Gan"} -> 2
      [] t = RahApos -> 3
      [] t \in {"10", "11"} -> 2
      [] OTHER -> 1

\* no white space between two neighbouring tokens
Glued(a, b) == b = Comma \/ a \in {Slash, Dash} \/ b \in {Slash, Dash}

RECURSIVE StrLen(_)
StrLen(s) ==
    IF s = << >> THEN 0
    ELSE IF Len(s) = 1 THEN TokLen(s[1])
    ELSE TokLen(s[1]) + (IF Glued(s[1], s[2]) THEN 0 ELSE 1) + StrLen(Tail(s))

Null == [def |-> FALSE, v |-> << >>]

Some(v) == [def |-> TRUE, v |-> v]

Last(s) == s[Len(s)]

Front(s) == SubSeq(s, 1, Len(s) - 1)

\* normalization.ts normalizeWhitespaceAndCommas: white space is canonical
\* in a token sequence; runs of commas collapse to one comma
RECURSIVE normalizeWhitespaceAndCommas(_)
normalizeWhitespaceAndCommas(value) ==
    IF Len(value) < 2 THEN value
    ELSE IF value[1] = Comma /\ value[2] = Comma
         THEN normalizeWhitespaceAndCommas(Tail(value))
         ELSE <<value[1]>> \o normalizeWhitespaceAndCommas(Tail(value))

\* normalization.ts applyReplacementDictionary: each of the three patterns
\* begins with \b before a Hebrew letter, so nothing is replaced
applyReplacementDictionary(value) == value

\* normalization.ts stripStreetPrefixes: /^\s*(rehov|rah'|rah)\s+/
stripStreetPrefixes(value) ==
    IF Len(value) >= 2 /\ value[1] \in {Rehov, RahApos, Rah}
       /\ ~Glued(value[1], value[2])
    THEN Tail(value) ELSE value

\* normalization.ts stripNeighborhoodTokens: no pattern matches (see above);
\* the trailing normalizeWhitespaceAndCommas remains
stripNeighborhoodTokens(value) == normalizeWhitespaceAndCommas(value)

RECURSIVE StripTrailingCommas(_)
StripTrailingCommas(value) ==
    IF value # << >> /\ Last(value) = Comma
    THEN StripTrailingCommas(Front(value)) ELSE value

\* normalization.ts normalizeStreetText
normalizeStreetText(input) ==
    LET \* steps 2-3: "-" and "/" become spaces, apostrophes are removed
        s3 == [i \in 1..Len(input) |-> IF input[i] = RahApos THEN Rah ELSE input[i]]
        s4 == SelectSeq(s3, LAMBDA t : t \notin {Dash, Slash})
        \* a leading "-" or "/" became a leading space in step 2, which no
        \* pattern anchored at ^ gets past; step 6 trims it
        lead == input # << >> /\ input[1] \in {Dash, Slash}
        \* step 5: /^rehov\s+/, then /^rah\s+/
        s5 == IF ~lead /\ Len(s4) >= 2 /\ s4[1] = Rehov /\ ~Glued(s4[1], s4[2])
              THEN Tail(s4) ELSE s4
        s6 == IF ~lead /\ Len(s5) >= 2 /\ s5[1] = Rah /\ ~Glued(s5[1], s5[2])
              THEN Tail(s5) ELSE s5
    IN  s6

HasNetivot(value) == \E i \in 1..Len(value) : value[i] = Netivot

LastIndexOfNetivot(value) ==
    CHOOSE i \in 1..Len(value) :
        value[i] = Netivot /\ \A j \in (i + 1)..Len(value) : value[j] # Netivot

\* step 7.1: /^(.+?)\s+(\d+)\s*-\s*(\d+)\s*$/ and the rounded midpoint
RangeToMiddle(a) ==
    LET n == Len(a)
    IN  IF n >= 4 /\ IsNum(a[n]) /\ a[n - 1] = Dash /\ IsNum(a[n - 2])
           /\ ~Glued(a[n - 3], a[n - 2])
        THEN SubSeq(a, 1, n - 3)
             \o <<NumStr((NumVal(a[n - 2]) + NumVal(a[n]) + 1) \div 2)>>
        ELSE a

\* step 7.2: /(\d+)\s*\/\s*\d+\s*$/ -> "$1"
StripApartment(a) ==
    LET n == Len(a)
    IN  IF n >= 3 /\ IsNum(a[n]) /\ a[n - 1] = Slash /\ IsNum(a[n - 2])
        THEN SubSeq(a, 1, n - 2) ELSE a

\* step 8: /^(.*\d+)/, keep up to the last digit
UpToLastNumber(a) ==
    IF \E i \in 1..Len(a) : IsNum(a[i])
    THEN SubSeq(a, 1, CHOOSE i \in 1..Len(a) :
                          IsNum(a[i]) /\ \A j \in (i + 1)..Len(a) : ~IsNum(a[j]))
    ELSE a

\* normalization.ts normalizeAddress
normalizeAddress(raw) ==
    IF raw = << >> THEN Null
    ELSE
    LET normalized ==
            stripStreetPrefixes(applyReplacementDictionary(
                normalizeWhitespaceAndCommas(raw)))
    IN  IF ~HasNetivot(normalized) THEN Some(normalized)
        ELSE
        LET a6 == stripNeighborhoodTokens(
                      SubSeq(normalized, 1, LastIndexOfNetivot(normalized) - 1))
            a7 == StripTrailingCommas(normalizeWhitespaceAndCommas(a6))
            a8 == UpToLastNumber(StripApartment(RangeToMiddle(a7)))
            n  == Len(a8)
        IN  \* step 9: /^(.+?)\s+(\d+)\s*$/
            IF n >= 2 /\ IsNum(a8[n]) /\ ~Glued(a8[n - 1], a8[n])
            THEN Some(normalizeStreetText(Front(a8)) \o <<a8[n], Comma, Netivot>>)
            ELSE Null

\* normalization.ts getAddressFromRow, from `rawAddress = parts.join(" ")` on
getAddressFromRow(rawAddress) ==
    IF normalizeAddress(rawAddress).def THEN normalizeAddress(rawAddress).v
    ELSE rawAddress

(***************************************************************************)
(* normalization.ts: extractStreetAndNumber.  The number is a record       *)
(* [def, v]; def = FALSE stands for null.                                  *)
(***************************************************************************)
NoNumber == [def |-> FALSE, v |-> ""]

\* index of the last comma of a string, 0 when it has none
LastCommaIndex(value) ==
    IF \E i \in 1..Len(value) : value[i] = Comma
    THEN CHOOSE i \in 1..Len(value) :
             value[i] = Comma /\ \A j \in (i + 1)..Len(value) : value[j] # Comma
    ELSE 0

\* step 2: value.replace(/,\s*Netivot.*$/, "")
StripCitySuffix(value) ==
    IF \E i \in 1..(Len(value) - 1) : value[i] = Comma /\ value[i + 1] = Netivot
    THEN SubSeq(value, 1,
                (CHOOSE i \in 1..(Len(value) - 1) :
                     /\ value[i] = Comma /\ value[i + 1] = Netivot
                     /\ \A j \in 1..(i - 1) :
                            ~(value[j] = Comma /\ value[j + 1] = Netivot)) - 1)
    ELSE value

\* step 3: the last comma-separated part, or the one before it when empty
MainPart(value) ==
    LET lc   == LastCommaIndex(value)
        last == SubSeq(value, lc + 1, Len(value))
        rest == SubSeq(value, 1, lc - 1)
    IN  IF last = << >> /\ lc > 0
        THEN SubSeq(rest, LastCommaIndex(rest) + 1, Len(rest))
        ELSE last

extractStreetAndNumber(rawAddress) ==
    IF rawAddress = << >> THEN [street |-> << >>, number |-> NoNumber]
    ELSE
    LET value    == StripCitySuffix(normalizeWhitespaceAndCommas(rawAddress))
        mainPart == normalizeWhitespaceAndCommas(stripNeighborhoodTokens(
                        stripStreetPrefixes(MainPart(value))))
        n        == Len(mainPart)
    IN  IF mainPart = << >> THEN [street |-> << >>, number |-> NoNumber]
        \* step 7: the last white-space separated token is /^\d+[alef-tav]?$/
        ELSE IF IsNum(mainPart[n]) /\ (n = 1 \/ ~Glued(mainPart[n - 1], mainPart[n]))
        THEN IF n = 1
             THEN [street |-> << >>, number |-> [def |-> TRUE, v |-> mainPart[n]]]
             ELSE [street |-> normalizeStreetText(Front(mainPart)),
                   number |-> [def |-> TRUE, v |-> mainPart[n]]]
        ELSE [street |-> normalizeStreetText(mainPart), number |-> NoNumber]

(***************************************************************************)
(* rowProcessor.ts: isIncompleteAddress, parseHouseNumber,                 *)
(* classifyAddressType                                                     *)
(***************************************************************************)
isIncompleteAddress(normalizedAddress) ==
    \/ normalizedAddress = << >>
    \/ normalizedAddress = <<Netivot>>
    \/ extractStreetAndNumber(normalizedAddress).street = << >>
    \/ ~extractStreetAndNumber(normalizedAddress).number.def

\* the parsed number, 0 standing for null
parseHouseNumber(number) ==
    IF ~number.def THEN 0
    ELSE IF NumVal(number.v) <= 0 THEN 0
    ELSE NumVal(number.v)

\* /^(.+?\S)\s*[\/\\]\s*(\S.+)$/ : at least two characters on each side
HasSlashBetweenTokens(t) ==
    \E i \in 1..Len(t) :
        /\ t[i] = Slash
        /\ StrLen(SubSeq(t, 1, i - 1)) >= 2
        /\ StrLen(SubSeq(t, i + 1, Len(t))) >= 2

\* /rehov\s+([^\s]+)\s+ve-?rehov\s+([^\s]+)/
HasVeRehov(t) ==
    \E i \in 1..(Len(t) - 3) :
        /\ t[i] \in {Rehov, VeRehov}
        /\ ~Glued(t[i], t[i + 1])
        /\ ~Glued(t[i + 1], t[i + 2])
        /\ t[i + 2] = VeRehov
        /\ ~Glued(t[i + 2], t[i + 3])

\* /\S+\s+(\d+[alef-tav]?)\b/ : a digit run after white space; the pattern
\* /(\S+)\s+(\d+[alef-tav]?)\s*$/ matches only where this one does
HasHouseNumberPattern(t) ==
    \E i \in 2..Len(t) : IsNum(t[i]) /\ ~Glued(t[i - 1], t[i])

classifyAddressType(rawText) ==
    IF rawText = << >> THEN "UNKNOWN"
    ELSE IF HasSlashBetweenTokens(rawText) THEN "INTERSECTION"
    ELSE IF HasVeRehov(rawText) THEN "INTERSECTION"
    ELSE IF HasHouseNumberPattern(rawText) THEN "STREET_NUMBER"
    ELSE IF StrLen(rawText) > 3 THEN "POI"
    ELSE "UNKNOWN"

(***************************************************************************)
(* The messages of rowProcessor.ts and excel.ts, in English.               *)
(***************************************************************************)
MsgMissingAddress == "missing full address"
MsgMissingNumberOrStreet == "missing full address (no house number or street name)"
MsgMissingStreet == "missing full address (no street name)"
MsgMissingNumber == "missing full address (no house number)"
MsgUnrecognized == "unrecognized address"
MsgGeocodingError == "geocoding error - manual handling required"
MsgNotFound == "full address but not found in the mapping database - manual handling required"

(***************************************************************************)
(* gisService.ts: the address points layer.  A feature is                  *)
(* [normalizedStreetName, houseNumber, lat, lon]; houseNumber = 0 stands   *)
(* for null (no feature carries the number 0: extractAddressFromFeature    *)
(* keeps a parsed number only when it is positive).                        *)
(***************************************************************************)
Feature(street, number, lat, lon) ==
    [normalizedStreetName |-> street, houseNumber |-> number,
     lat |-> lat, lon |-> lon]

\* the content of the address layer file: two points of one street that
\* bracket the numbers between them, a street with a two-word name, and a
\* feature without a house number
AddressLayer ==
    << Feature(<<"Herzl">>, 3, 6000, 8000),
       Feature(<<"Herzl">>, 7, 6400, 8200),
       Feature(<<"Weizmann", "Haim">>, 10, 5000, 9000),
       Feature(<<"Gan">>, 0, 7000, 7000) >>

normalizeStreetName(streetName) == normalizeStreetText(streetName)

\* a token that is a character prefix of another token
CharPrefix(u, w) ==
    u = w \/ (u = Rah /\ w \in {Rehov, RahApos})

\* String.prototype.startsWith on two street names
StartsWith(a, b) ==
    /\ b # << >>
    /\ Len(b) <= Len(a)
    /\ \A i \in 1..(Len(b) - 1) : a[i] = b[i]
    /\ CharPrefix(b[Len(b)], a[Len(b)])

\* scores are kept in units of 1/840000 so that 2*k/n is exact for n <= 8
ScoreUnit == 840

Score(thousandths) == thousandths * ScoreUnit

Min2(a, b) == IF a < b THEN a ELSE b

TokenSet(s) == {s[i] : i \in 1..Len(s)}

\* findBestStreetNameMatch: the score of one candidate
CandidateScore(normalizedInput, candidate) ==
    IF candidate = normalizedInput THEN Score(1000)
    ELSE IF StartsWith(candidate, normalizedInput)
    THEN IF StrLen(candidate) - StrLen(normalizedInput) <= 3
         THEN Score(850) ELSE Score(750)
    ELSE IF StartsWith(normalizedInput, candidate)
    THEN IF StrLen(normalizedInput) - StrLen(candidate) <= 3
         THEN Score(850) ELSE Score(600)
    ELSE
    LET intersectionCount ==
            Cardinality(TokenSet(normalizedInput) \cap TokenSet(candidate))
        totalTokens == Len(normalizedInput) + Len(candidate)
        overlap     == (2 * intersectionCount * Score(1000)) \div totalTokens
        lengthDiff  == StrLen(candidate) - StrLen(normalizedInput)
    IN  IF Len(normalizedInput) = 0 \/ Len(candidate) = 0 THEN 0
        ELSE IF overlap < Score(500) THEN 0
        ELSE IF overlap >= Score(800) /\ lengthDiff > 0
        THEN Min2(Score(1000), overlap + Min2(Score(50), lengthDiff * Score(5)))
        ELSE overlap

\* the loop of findBestStreetNameMatch from candidate i on
RECURSIVE BestFrom(_, _, _, _, _)
BestFrom(normalizedInput, candidates, i, bestCandidate, bestScore) ==
    IF i > Len(candidates) THEN [best |-> bestCandidate, score |-> bestScore]
    ELSE LET score == CandidateScore(normalizedInput, candidates[i])
         IN  IF score > bestScore
             THEN BestFrom(normalizedInput, candidates, i + 1,
                           Some(candidates[i]), score)
             ELSE BestFrom(normalizedInput, candidates, i + 1,
                           bestCandidate, bestScore)

findBestStreetNameMatch(normalizedInput, candidates) ==
    IF normalizedInput = << >> \/ candidates = << >>
    THEN [best |-> Null, score |-> 0]
    ELSE LET r == BestFrom(normalizedInput, candidates, 1, Null, 0)
         IN  IF r.score < Score(700) THEN [best |-> Null, score |-> r.score]
             ELSE r

\* Array.from(new Set(features.map(f => f.normalizedStreetName))): the
\* names in the order of their first feature
RECURSIVE UniqueStreetCandidates(_)
UniqueStreetCandidates(features) ==
    IF features = << >> THEN << >>
    ELSE LET before == UniqueStreetCandidates(Front(features))
             name   == Last(features).normalizedStreetName
         IN  IF name = << >> \/ \E i \in 1..Len(before) : before[i] = name
             THEN before ELSE Append(before, name)

\* [...streetFeatures].sort((a, b) => a.houseNumber - b.houseNumber), stable
RECURSIVE SortByHouseNumber(_)
SortByHouseNumber(features) ==
    IF Len(features) <= 1 THEN features
    ELSE LET sorted == SortByHouseNumber(Front(features))
             f      == Last(features)
             k      == Cardinality({i \in 1..Len(sorted) :
                                       sorted[i].houseNumber <= f.houseNumber})
         IN  SubSeq(sorted, 1, k) \o <<f>> \o SubSeq(sorted, k + 1, Len(sorted))

\* an interpolation that stays at the lower feature
interpolateAtLower(lowerFeature, upperFeature, targetNumber) ==
    [lat |-> lowerFeature.lat, lon |-> lowerFeature.lon]

\* interpolateCoordinates; the layers make every division exact
interpolateCoordinates(lowerFeature, upperFeature, targetNumber) ==
    LET span == upperFeature.houseNumber - lowerFeature.houseNumber
        step == targetNumber - lowerFeature.houseNumber
    IN  [lat |-> lowerFeature.lat
                 + ((upperFeature.lat - lowerFeature.lat) * step) \div span,
         lon |-> lowerFeature.lon
                 + ((upperFeature.lon - lowerFeature.lon) * step) \div span]

NoResult == [def |-> FALSE, lat |-> 0, lon |-> 0, confidence |-> 0,
             source |-> "", method |-> ""]

GISResult(lat, lon, confidence) ==
    [def |-> TRUE, lat |-> lat, lon |-> lon, confidence |-> confidence,
     source |-> "GIS", method |-> ""]

\* lookupAddress 741-743, 777-779: the features of one street that carry a
\* house number
StreetFeatures(features, name) ==
    SelectSeq(features, LAMBDA f :
        f.normalizedStreetName = name /\ f.houseNumber # 0)

MinOf(S) == CHOOSE i \in S : \A j \in S : i <= j

MaxOf(S) == CHOOSE i \in S : \A j \in S : j <= i

\* lookupAddress 790-846: exact number, else interpolation between the
\* nearest lower and upper numbers
LookupNumber(sortedFeatures, exactIdx, lowerIdx, upperIdx, fuzzyUsed, houseNumber) ==
    IF exactIdx # {}
    THEN GISResult(sortedFeatures[MinOf(exactIdx)].lat,
                   sortedFeatures[MinOf(exactIdx)].lon,
                   IF fuzzyUsed THEN 90 ELSE 100)
    ELSE IF lowerIdx = {} \/ upperIdx = {} THEN NoResult
    ELSE GISResult(
             interpolateCoordinates(sortedFeatures[MaxOf(lowerIdx)],
                                    sortedFeatures[MinOf(upperIdx)],
                                    houseNumber).lat,
             interpolateCoordinates(sortedFeatures[MaxOf(lowerIdx)],
                                    sortedFeatures[MinOf(upperIdx)],
                                    houseNumber).lon,
             IF fuzzyUsed THEN 70 ELSE 80)

\* lookupAddress 785-788 and the searches over the sorted features
LookupSorted(sortedFeatures, fuzzyUsed, houseNumber) ==
    LookupNumber(sortedFeatures,
        {i \in 1..Len(sortedFeatures) : sortedFeatures[i].houseNumber = houseNumber},
        {i \in 1..Len(sortedFeatures) : sortedFeatures[i].houseNumber < houseNumber},
        {i \in 1..Len(sortedFeatures) : sortedFeatures[i].houseNumber > houseNumber},
        fuzzyUsed, houseNumber)

\* lookupAddress 752-783: no feature has the exact street name
LookupFuzzy(features, fuzzyResult, houseNumber) ==
    IF ~fuzzyResult.best.def THEN NoResult
    ELSE LookupSorted(
             SortByHouseNumber(StreetFeatures(features, fuzzyResult.best.v)),
             TRUE, houseNumber)

LookupStreet(features, exact, normalized, houseNumber) ==
    IF exact # << >>
    THEN LookupSorted(SortByHouseNumber(exact), FALSE, houseNumber)
    ELSE LookupFuzzy(features,
                     findBestStreetNameMatch(normalized,
                                             UniqueStreetCandidates(features)),
                     houseNumber)

LookupNormalized(features, normalized, houseNumber) ==
    LookupStreet(features, StreetFeatures(features, normalized), normalized,
                 houseNumber)

\* lookupAddress on the loaded features
lookupAddress(layerLoaded, features, streetName, houseNumber) ==
    IF ~layerLoaded \/ streetName = << >> \/ houseNumber <= 0 THEN NoResult
    ELSE LookupNormalized(features, normalizeStreetName(streetName), houseNumber)

(***************************************************************************)
(* excel.ts, App.tsx: from a sheet record to an AddressRow.  A record is   *)
(* reduced to what the code reads of it: the street, number and city cells *)
(* joined by getAddressFromRow (`parts.join(" ")`), and the coordinate     *)
(* cells.                                                                  *)
(***************************************************************************)
RawRecord(address, originalCoords) ==
    [address |-> address, originalCoords |-> originalCoords]

\* excel.ts convertRawDataToAddressRows, one record
ConvertRecord(data) ==
    LET rawAddr    == getAddressFromRow(data.address)
        normalized == normalizeAddress(rawAddr)
        message    == IF rawAddr = << >> THEN <<MsgMissingAddress>>
                      ELSE IF ~normalized.def THEN <<MsgMissingNumberOrStreet>>
                      ELSE << >>
    IN  [NewRow(rawAddr, normalized, data.originalCoords)
            EXCEPT !.message = message]

convertRawDataToAddressRows(rawData) ==
    [i \in 1..Len(rawData) |-> ConvertRecord(rawData[i])]

\* App.tsx isCityOnlyAddress
isCityOnlyAddress(address) ==
    SelectSeq(address, LAMBDA t : t # Comma) \in {<< >>, <<Netivot>>}

\* App.tsx isLikelyPoiOrIntersection: a keyword of poiKeywords ("Gan" is
\* the only word used here that contains one) or a slash
isLikelyPoiOrIntersection(text) ==
    \E i \in 1..Len(text) : text[i] \in {"Gan", Slash}

\* App.tsx isAddressAcceptableWithoutHouseNumber
isAddressAcceptableWithoutHouseNumber(address) ==
    \/ isLikelyPoiOrIntersection(address)
    \/ /\ HasNetivot(address)
       /\ SelectSeq(address, LAMBDA t : t \notin {Comma, Netivot}) # << >>

\* App.tsx isMissingFullAddress
isMissingFullAddress(rawAddress) ==
    IF rawAddress = << >> THEN TRUE
    ELSE IF isCityOnlyAddress(rawAddress) THEN TRUE
    ELSE IF \E i \in 1..Len(rawAddress) : IsNum(rawAddress[i]) THEN FALSE
    ELSE ~isAddressAcceptableWithoutHouseNumber(rawAddress)

\* App.tsx handleFileUpload, one record of the preview
PreviewRecord(data) ==
    LET rawAddr    == getAddressFromRow(data.address)
        normalized == normalizeAddress(rawAddr)
        addressForRules ==
            IF normalized.def /\ normalized.v # << >> THEN normalized.v
            ELSE rawAddr
        message ==
            IF ~isMissingFullAddress(addressForRules) THEN << >>
            ELSE IF isCityOnlyAddress(addressForRules) THEN <<MsgMissingAddress>>
            ELSE <<MsgMissingNumber>>
    IN  [NewRow(rawAddr, normalized, data.originalCoords)
            EXCEPT !.message = message]

(***************************************************************************)
(* geocoding.ts: the queries of the open-data adapter used for             *)
(* Intersection/POI text.  "&" and Israel are the tokens the builders add. *)
(***************************************************************************)
Israel == "Israel"
Ampersand == "&"

\* ensureNetivotContext (no string used here names the country)
ensureNetivotContext(query) ==
    IF HasNetivot(query) THEN query \o <<Comma, Israel>>
    ELSE query \o <<Comma, Netivot, Comma, Israel>>

\* stripCityTokens: /[,\s]+Netivot.*$/ needs a comma or a space before the
\* city name
stripCityTokens(raw) ==
    LET found == {i \in 2..Len(raw) : raw[i] = Netivot}
    IN  IF found = {} THEN raw
        ELSE StripTrailingCommas(
                 SubSeq(raw, 1, (CHOOSE i \in found : \A j \in found : i <= j) - 1))

\* detectIntersection: /^(.+?\D)\s*[\/\\]\s*(\D.+)$/ (the pattern with the
\* "corner of" word is not used by any string here)
detectIntersection(raw) ==
    LET normalized == stripCityTokens(raw)
        cuts == {i \in 2..(Len(normalized) - 1) :
                    /\ normalized[i] = Slash
                    /\ ~IsNum(normalized[i - 1]) /\ ~IsNum(normalized[i + 1])
                    /\ StrLen(SubSeq(normalized, 1, i - 1)) >= 2
                    /\ StrLen(SubSeq(normalized, i + 1, Len(normalized))) >= 2}
        cut == CHOOSE i \in cuts : \A j \in cuts : i <= j
        street1 == normalizeStreetText(SubSeq(normalized, 1, cut - 1))
        street2 == normalizeStreetText(SubSeq(normalized, cut + 1, Len(normalized)))
    IN  IF cuts # {} /\ street1 # << >> /\ street2 # << >>
        THEN Some(street1 \o <<Ampersand>> \o street2)
        ELSE Null

\* normalizeNetivotCore: the last segment of split(/[,-]/) that is not empty
normalizeNetivotCore(raw) ==
    LET core == stripCityTokens(raw)
        seps == {i \in 1..Len(core) : core[i] \in {Comma, Dash}}
        segs == {<<i, j>> \in (1..Len(core)) \X (1..Len(core)) :
                    /\ i <= j
                    /\ \A k \in i..j : k \notin seps
                    /\ (i = 1 \/ (i - 1) \in seps)
                    /\ (j = Len(core) \/ (j + 1) \in seps)}
        last == CHOOSE s \in segs : \A r \in segs : r[1] <= s[1]
    IN  IF segs = {} THEN << >>
        ELSE IF Cardinality(segs) > 1 THEN SubSeq(core, last[1], last[2])
        ELSE core

\* Array.from(new Set(queries))
RECURSIVE Dedupe(_)
Dedupe(queries) ==
    IF queries = << >> THEN << >>
    ELSE LET before == Dedupe(Front(queries))
         IN  IF \E i \in 1..Len(before) : before[i] = Last(queries)
             THEN before ELSE Append(before, Last(queries))

\* buildNominatimQueries (detectPoi knows none of the words used here)
buildNominatimQueries(rawAddress) ==
    IF rawAddress = << >> THEN << >>
    ELSE
    LET intersectionQuery == detectIntersection(rawAddress)
        core == normalizeNetivotCore(rawAddress)
    IN  Dedupe(
            (IF intersectionQuery.def
             THEN <<ensureNetivotContext(intersectionQuery.v)>> ELSE << >>)
            \o <<ensureNetivotContext(rawAddress)>>
            \o (IF core # << >> /\ core # rawAddress
                THEN <<ensureNetivotContext(core)>> ELSE << >>))

(***************************************************************************)
(* rowProcessor.ts: the rows processRow returns without a geocoding result *)
(***************************************************************************)
SkippedRow(row, message) ==
    [row EXCEPT !.status = "SKIPPED", !.message = <<message>>,
                !.finalCoords = NoCoords]

NotFoundRow(row) ==
    [row EXCEPT !.status = "NOT_FOUND", !.message = <<MsgNotFound>>,
                !.finalCoords = NoCoords]

\* a catch block that hands the row back as it came
GeocodingErrorRowUnhandled(row) == row

\* the catch blocks of processStreetNumberAddress 444-455 and
\* processIntersectionOrPoi 518-526

GeocodingErrorRow(row) ==
    [row EXCEPT !.status = "NOT_FOUND", !.message = <<MsgGeocodingError>>,
                !.finalCoords = NoCoords]

\* processRow: rawAddress = row.normalizedAddress || row.address || ""
RawAddressOf(row) ==
    IF row.normalizedAddress.def /\ row.normalizedAddress.v # << >>
    THEN row.normalizedAddress.v ELSE row.address

\* processRow, route D: /\brehov\b/ never matches (see the note on \b)
looksLikeStreetWithoutNumber(rawAddress) == FALSE

UnknownRow(row, rawAddress) ==
    SkippedRow(row, IF looksLikeStreetWithoutNumber(rawAddress)
                    THEN MsgMissingNumber ELSE MsgUnrecognized)

\* processStreetNumberAddress up to the call of HybridGeocoder.geocode:
\* the row it returns early, or def = FALSE with the arguments of the call
EarlyReturn(r) == [def |-> TRUE, row |-> r, street |-> << >>, houseNumber |-> 0]

\* processStreetNumberAddress 424-431: the house number does not parse
StreetNumberArguments(row, street, houseNumber) ==
    IF houseNumber <= 0
    THEN EarlyReturn(SkippedRow(row, MsgMissingNumber))
    ELSE [def |-> FALSE, row |-> row, street |-> street,
          houseNumber |-> houseNumber]

\* processStreetNumberAddress 409-422: the street is empty
StreetNumberParts(row, parts) ==
    IF parts.street = << >>
    THEN EarlyReturn(SkippedRow(row, MsgMissingStreet))
    ELSE StreetNumberArguments(row, parts.street, parseHouseNumber(parts.number))

\* processStreetNumberAddress 394-407: normalisation failed or the address
\* is incomplete
StreetNumberNormalized(row, normalized) ==
    IF ~normalized.def \/ isIncompleteAddress(normalized.v)
    THEN EarlyReturn(SkippedRow(row, MsgMissingNumberOrStreet))
    ELSE StreetNumberParts(row, extractStreetAndNumber(normalized.v))

StreetNumberPreparation(row, rawAddress) ==
    StreetNumberNormalized(row, normalizeAddress(rawAddress))

(***************************************************************************)
(* hybridGeocoder.ts: result conversions and the acceptance of a           *)
(* government point                                                        *)
(***************************************************************************)
NoPoint == [def |-> FALSE, lat |-> 0, lon |-> 0]

PointOf(p) == [def |-> TRUE, lat |-> p[1], lon |-> p[2]]

convertGISResultToHybrid(gisResult) ==
    [gisResult EXCEPT !.method = IF gisResult.confidence = 100
                                 THEN "GIS_EXACT" ELSE "GIS_INTERPOLATED"]

\* the open-data point dropped when it lies outside the box
convertNominatimResultInsideOnly(nominatimResult) ==
    IF isWithinNetivotBounds(nominatimResult.lat, nominatimResult.lon)
    THEN [def |-> TRUE, lat |-> nominatimResult.lat, lon |-> nominatimResult.lon,
          confidence |-> 60, source |-> "NOMINATIM",
          method |-> "NOMINATIM_BBOX_RESTRICTED"]
    ELSE NoResult

\* convertNominatimResultToHybrid; geocodeRequest lines 502-525 tag the
\* point of geocodeNetivot in the same way
convertNominatimResultToHybrid(nominatimResult) ==
    IF ~isWithinNetivotBounds(nominatimResult.lat, nominatimResult.lon)
    THEN [def |-> TRUE, lat |-> nominatimResult.lat, lon |-> nominatimResult.lon,
          confidence |-> 30, source |-> "NOMINATIM",
          method |-> "NOMINATIM_OUT_OF_BOUNDS"]
    ELSE [def |-> TRUE, lat |-> nominatimResult.lat, lon |-> nominatimResult.lon,
          confidence |-> 60, source |-> "NOMINATIM",
          method |-> "NOMINATIM_BBOX_RESTRICTED"]

\* a government response that is never taken
GovmapNeverAccepted(govmapResult) == FALSE

\* geocode 362-368, geocodeRequest 456-462, geocodeNetivot 283-284
GovmapAccepted(govmapResult) ==
    govmapResult.def /\ isWithinNetivotBounds(govmapResult.lat, govmapResult.lon)

GovmapHybridResult(govmapResult) ==
    [def |-> TRUE, lat |-> govmapResult.lat, lon |-> govmapResult.lon,
     confidence |-> 75, source |-> "GOVMAP", method |-> "GEOCODE"]

\* geocoding.ts geocodeWithNominatim 262-267: a response is returned when
\* it lies in the box or names the city
NominatimItemAccepted(item) ==
    item.point.def
        /\ (item.netivotByName
              \/ isWithinNetivotBounds(item.point.lat, item.point.lon))

\* geocodeRequest 502-525: the point of geocodeNetivot, tagged
TagFallbackCoords(fallbackCoords) ==
    IF ~isWithinNetivotBounds(fallbackCoords.lat, fallbackCoords.lon)
    THEN [def |-> TRUE, lat |-> fallbackCoords.lat, lon |-> fallbackCoords.lon,
          confidence |-> 30, source |-> "NOMINATIM",
          method |-> "NOMINATIM_OUT_OF_BOUNDS"]
    ELSE [def |-> TRUE, lat |-> fallbackCoords.lat, lon |-> fallbackCoords.lon,
          confidence |-> 60, source |-> "NOMINATIM",
          method |-> "NOMINATIM_BBOX_RESTRICTED"]

(***************************************************************************)
(* The inputs: sheets of at most MaxRows records, and what the providers   *)
(* may answer.                                                             *)
(***************************************************************************)
MaxRows == 2

\* prior coordinates of a record: 50 m from the layer's point of Herzl 3,
\* and kilometres away from every point used here
NearOriginal == Coords(6030, 8040)
FarOriginal == Coords(2000, 2000)

RawRecords ==
    { RawRecord(<< >>, NoCoords),
      RawRecord(<<Netivot>>, NoCoords),
      RawRecord(<<"Herzl", "3", Netivot>>, NearOriginal),
      RawRecord(<<"Herzl", "5", Netivot>>, NoCoords),
      RawRecord(<<"Herzl", "0", Netivot>>, NoCoords),
      RawRecord(<<Rehov, "Weizmann", "9", Dash, "11", Netivot>>, FarOriginal),
      RawRecord(<<"Weizmann", "5", Netivot>>, NearOriginal),
      RawRecord(<<"Herzl", Slash, "Weizmann", Netivot>>, NoCoords),
      RawRecord(<<"Herzl", Netivot>>, FarOriginal),
      RawRecord(<<"Gan">>, NoCoords),
      RawRecord(<<Rehov, Rehov, "5", Netivot>>, NoCoords) }

\* a file: [def, readable, data]; readExcel resolves with data when the
\* file is readable and rejects when it is not
Files ==
    {[def |-> TRUE, readable |-> TRUE, data |-> d] :
        d \in UNION {[1..n -> RawRecords] : n \in 1..MaxRows}}

UnreadableFile == [def |-> TRUE, readable |-> FALSE, data |-> << >>]

\* what geocodeWithGovmap may resolve to: null, a point in the box, a point
\* north of it
GovmapResponses ==
    {NoPoint, PointOf(<<6000, 8080>>), PointOf(<<maxLat + 1, 8000>>)}

\* what hybridGeocoder.ts geocodeWithNominatim may resolve to
NominatimResponses ==
    {NoPoint, PointOf(<<6100, 8000>>), PointOf(<<6000, minLon - 500>>)}

\* what one fetch of geocoding.ts geocodeWithNominatim may bring: nothing
\* usable, or data[0] with its point and whether its texts name the city
NominatimItems ==
    { [point |-> NoPoint, netivotByName |-> FALSE],
      [point |-> PointOf(<<6100, 8000>>), netivotByName |-> FALSE],
      [point |-> PointOf(<<6000, minLon - 500>>), netivotByName |-> FALSE],
      [point |-> PointOf(<<6000, minLon - 500>>), netivotByName |-> TRUE] }

LookupEntry(source, point, netivotByName) ==
    [source |-> source, point |-> point, netivotByName |-> netivotByName]

PointOfResult(result) ==
    [def |-> result.def, lat |-> result.lat, lon |-> result.lon]

(***************************************************************************)
(* The pass: App.tsx startProcessing -> excel.ts processExcelFile ->       *)
(* rowProcessor.ts processRows -> processRow -> hybridGeocoder.ts.  Every  *)
(* await of a provider is a point where the pass waits; the code between   *)
(* two awaits is one step.                                                 *)
(***************************************************************************)
RowsInit ==
    /\ clsRow = NewRow(<< >>, Null, NoCoords)
    /\ clsResult = NoResult
    /\ clsType = "UNKNOWN"
    /\ clsOut = NewRow(<< >>, Null, NoCoords)
    /\ RowsQuiet
    /\ BatchQuiet
    /\ NetQuiet
    /\ LoadQuiet
    /\ RestQuiet

\* App.tsx handleFileUpload: a file was chosen (the input is disabled while
\* isProcessing); readExcel resolves with its records or rejects
HandleFileUpload ==
    /\ UNCHANGED <<clsVars, batchVars, netVars, loadVars, restVars>>
    /\ ~isProcessing
    /\ pc \in {"idle", "done"}
    /\ \E file \in Files \cup {UnreadableFile} :
         /\ uploadedFile' = file
         /\ IF file.readable
            THEN /\ rows' = [i \in 1..Len(file.data) |-> PreviewRecord(file.data[i])]
                 /\ error' = ""
            ELSE /\ rows' = rows
                 /\ error' = "error reading the file"
    /\ pc' = "idle"
    /\ direct' = FALSE
    /\ addressRows' = << >>
    /\ results' = << >>
    /\ traces' = << >>
    /\ UNCHANGED <<isProcessing, gisVars, req, inflight, chain>>

\* the start button is rendered when some row is PENDING
StartButtonShown ==
    /\ ~isProcessing
    /\ rows # << >>
    /\ \E i \in 1..Len(rows) : rows[i].status = "PENDING"

StartProcessing ==
    /\ UNCHANGED <<clsVars, batchVars, netVars, loadVars, restVars>>
    /\ StartButtonShown
    /\ pc \in {"idle", "done"}
    /\ uploadedFile.def
    /\ isProcessing' = TRUE
    /\ error' = ""
    /\ pc' = "reading"
    /\ direct' = FALSE
    /\ addressRows' = << >>
    /\ results' = << >>
    /\ traces' = << >>
    /\ UNCHANGED <<uploadedFile, rows, gisVars, req, inflight, chain>>

\* a pass that goes on with the rows where processExcelFile has thrown
PassGoesOn ==
    /\ error' = error
    /\ isProcessing' = isProcessing
    /\ pc' = "rows"
    /\ UNCHANGED <<uploadedFile, rows, direct, addressRows, results, req,
                   inflight, chain, traces>>

\* startProcessing, catch and finally: the rows are kept
PassFailed ==
    /\ error' = "error processing the file"
    /\ isProcessing' = FALSE
    /\ pc' = "idle"
    /\ UNCHANGED <<uploadedFile, rows, direct, addressRows, results, req,
                   inflight, chain, traces>>

\* HybridGeocoder.init has loaded both layers
InitCompleted ==
    /\ initialized' = TRUE
    /\ geocoderInitialized' = TRUE
    /\ pc' = "rows"

\* processExcelFile: readExcel resolved; ensureGeocoderInitialized begins
ReadExcelDone ==
    /\ UNCHANGED <<clsVars, batchVars, netVars, loadVars, restVars>>
    /\ pc = "reading"
    /\ uploadedFile.readable
    /\ addressRows' = convertRawDataToAddressRows(uploadedFile.data)
    /\ IF geocoderInitialized
       THEN pc' = "rows" /\ UNCHANGED <<geocoderInitialized, initialized>>
       ELSE IF ~addressLayerLoaded
       THEN pc' = "loadLayer" /\ UNCHANGED <<geocoderInitialized, initialized>>
       ELSE IF ~streetSegmentsLoaded
       THEN pc' = "loadSegments" /\ UNCHANGED <<geocoderInitialized, initialized>>
       ELSE InitCompleted
    /\ UNCHANGED <<appVars, addressLayerLoaded, addressFeatures,
                   streetSegmentsLoaded, direct, results, req, inflight,
                   chain, traces>>

ReadExcelFail ==
    /\ UNCHANGED <<clsVars, batchVars, netVars, loadVars, restVars>>
    /\ pc = "reading"
    /\ ~uploadedFile.readable
    /\ PassFailed
    /\ UNCHANGED gisVars

\* gisService.ts loadLayer
LoadLayerDone ==
    /\ UNCHANGED <<clsVars, batchVars, netVars, loadVars, restVars>>
    /\ pc = "loadLayer"
    /\ addressFeatures' = AddressLayer
    /\ addressLayerLoaded' = TRUE
    /\ IF ~streetSegmentsLoaded
       THEN pc' = "loadSegments" /\ UNCHANGED <<geocoderInitialized, initialized>>
       ELSE InitCompleted
    /\ UNCHANGED <<appVars, streetSegmentsLoaded, direct, addressRows, results,
                   req, inflight, chain, traces>>

LoadLayerFail ==
    /\ UNCHANGED <<clsVars, batchVars, netVars, loadVars, restVars>>
    /\ pc = "loadLayer"
    /\ PassFailed
    /\ UNCHANGED gisVars

\* gisService.ts loadStreetSegmentsLayer
LoadSegmentsDone ==
    /\ UNCHANGED <<clsVars, batchVars, netVars, loadVars, restVars>>
    /\ pc = "loadSegments"
    /\ streetSegmentsLoaded' = TRUE
    /\ InitCompleted
    /\ UNCHANGED <<appVars, addressLayerLoaded, addressFeatures, direct,
                   addressRows, results, req, inflight, chain, traces>>

LoadSegmentsFail ==
    /\ UNCHANGED <<clsVars, batchVars, netVars, loadVars, restVars>>
    /\ pc = "loadSegments"
    /\ PassFailed
    /\ UNCHANGED gisVars

\* excel.ts processExcelRows, called on the rows of the file without
\* ensureGeocoderInitialized
ProcessExcelRows ==
    /\ UNCHANGED <<clsVars, batchVars, netVars, loadVars, restVars>>
    /\ ~isProcessing
    /\ pc \in {"idle", "done"}
    /\ uploadedFile.def
    /\ uploadedFile.readable
    /\ addressRows' = convertRawDataToAddressRows(uploadedFile.data)
    /\ direct' = TRUE
    /\ pc' = "rows"
    /\ results' = << >>
    /\ traces' = << >>
    /\ UNCHANGED <<appVars, gisVars, req, inflight, chain>>

\* processRows: the row processRow is working on
CurrentRow == addressRows[Len(results) + 1]

\* processRow returned: results.push(processed)
FinishRow(processed, lookups, result, origin, nominatimReturned) ==
    /\ results' = Append(results, processed)
    /\ traces' = Append(traces,
           [result    |-> result,
            \* the source whose lookup gave the point of the result
            origin    |-> IF origin = 0 THEN "" ELSE lookups[origin].source,
            \* what the open-data adapter returned, if it was called
            nominatim |-> nominatimReturned,
            \* the sources looked up for the row
            called    |-> {lookups[i].source : i \in 1..Len(lookups)}])
    /\ pc' = "rows"
    /\ req' = NoRequest
    /\ chain' = << >>
    /\ UNCHANGED <<appVars, gisVars, direct, addressRows>>

\* the code reaches `await` of a provider call
Await(nextPc, source, request, lookups, pending) ==
    /\ pc' = nextPc
    /\ inflight' = Append(pending, source)
    /\ req' = request
    /\ chain' = lookups
    /\ UNCHANGED <<appVars, gisVars, direct, addressRows, results, traces>>

\* hybridGeocoder.ts geocode 338-358: the layer's answer is the result, or
\* the government adapter is asked
GeocodeFromGis(row, rawAddress, prep, gisResult) ==
    IF gisResult.def
    THEN /\ FinishRow(applyGeocodingResult(row, convertGISResultToHybrid(gisResult),
                                           "STREET_NUMBER"),
                      <<LookupEntry("GIS", PointOfResult(gisResult), FALSE)>>,
                      convertGISResultToHybrid(gisResult), 1, NoPoint)
         /\ UNCHANGED inflight
    ELSE Await("govmap", "GOVMAP",
               [kind |-> "STREET_NUMBER", street |-> prep.street,
                houseNumber |-> prep.houseNumber,
                rawText |-> rawAddress, queries |-> << >>, q |-> 0],
               <<LookupEntry("GIS", PointOfResult(gisResult), FALSE)>>, inflight)

\* processStreetNumberAddress from its first statement
ProcessStreetNumber(row, rawAddress, prep) ==
    IF prep.def
    THEN /\ FinishRow(prep.row, << >>, NoResult, 0, NoPoint)
         /\ UNCHANGED inflight
    \* geocode throws, processStreetNumberAddress catches
    ELSE IF ~initialized
    THEN /\ FinishRow(GeocodingErrorRow(row), << >>, NoResult, 0, NoPoint)
         /\ UNCHANGED inflight
    ELSE GeocodeFromGis(row, rawAddress, prep,
                        lookupAddress(addressLayerLoaded, addressFeatures,
                                      prep.street, prep.houseNumber))

\* processRow 335-377: the route by address type
ProcessRowRoute(row, rawAddress, addressType) ==
    IF addressType = "STREET_NUMBER"
    THEN ProcessStreetNumber(row, rawAddress,
                             StreetNumberPreparation(row, rawAddress))
    ELSE IF addressType \in {"INTERSECTION", "POI"}
    THEN Await("govmap", "GOVMAP",
               [kind |-> addressType, street |-> << >>, houseNumber |-> 0,
                rawText |-> rawAddress, queries |-> << >>, q |-> 0],
               << >>, inflight)
    ELSE /\ FinishRow(UnknownRow(row, rawAddress), << >>, NoResult, 0, NoPoint)
         /\ UNCHANGED inflight

\* processRow 321-333: a row without an address is skipped
ProcessRowAddress(row, rawAddress) ==
    IF rawAddress = << >>
    THEN /\ FinishRow(SkippedRow(row, MsgMissingAddress), << >>, NoResult, 0,
                      NoPoint)
         /\ UNCHANGED inflight
    ELSE ProcessRowRoute(row, rawAddress, classifyAddressType(rawAddress))

\* processRow from its first statement to its return or its first await
ProcessRowStart ==
    /\ UNCHANGED <<clsVars, batchVars, netVars, loadVars, restVars>>
    /\ pc = "rows"
    /\ Len(results) < Len(addressRows)
    /\ ProcessRowAddress(CurrentRow, RawAddressOf(CurrentRow))

\* geocode 360 / geocodeRequest 454: geocodeWithGovmap resolved
GovmapReturn ==
    /\ UNCHANGED <<clsVars, batchVars, netVars, loadVars, restVars>>
    /\ pc = "govmap"
    /\ inflight # << >>
    /\ \E govmapResult \in GovmapResponses :
         LET lookups == Append(chain, LookupEntry("GOVMAP", govmapResult, FALSE))
             result  == GovmapHybridResult(govmapResult)
         IN  IF GovmapAccepted(govmapResult)
             THEN /\ FinishRow(applyGeocodingResult(CurrentRow, result, req.kind),
                               lookups, result, Len(lookups), NoPoint)
                  /\ inflight' = Tail(inflight)
             ELSE IF req.kind = "STREET_NUMBER"
             THEN Await("nominatim", "NOMINATIM", req, lookups, Tail(inflight))
             \* geocodeRequest 489: geocodeNetivot asks the government
             \* adapter again, with the text as it is
             ELSE Await("govmap2", "GOVMAP", req, lookups, Tail(inflight))

\* geocoding.ts geocodeNetivot 282: geocodeWithGovmap resolved
Govmap2Return ==
    /\ UNCHANGED <<clsVars, batchVars, netVars, loadVars, restVars>>
    /\ pc = "govmap2"
    /\ inflight # << >>
    /\ \E govResult \in GovmapResponses :
         LET lookups == Append(chain, LookupEntry("GOVMAP", govResult, FALSE))
             result  == TagFallbackCoords(govResult)
             queries == buildNominatimQueries(req.rawText)
         IN  IF GovmapAccepted(govResult)
             THEN /\ FinishRow(applyGeocodingResult(CurrentRow, result, req.kind),
                               lookups, result, Len(lookups), NoPoint)
                  /\ inflight' = Tail(inflight)
             ELSE IF queries = << >>
             THEN /\ FinishRow(NotFoundRow(CurrentRow), lookups, NoResult, 0,
                               NoPoint)
                  /\ inflight' = Tail(inflight)
             ELSE Await("nominatimQuery", "NOMINATIM",
                        [req EXCEPT !.queries = queries, !.q = 1],
                        lookups, Tail(inflight))

\* hybridGeocoder.ts geocode 398: geocodeWithNominatim resolved
NominatimReturn ==
    /\ UNCHANGED <<clsVars, batchVars, netVars, loadVars, restVars>>
    /\ pc = "nominatim"
    /\ inflight # << >>
    /\ inflight' = Tail(inflight)
    /\ \E nominatimResult \in NominatimResponses :
         LET lookups == Append(chain,
                               LookupEntry("NOMINATIM", nominatimResult, FALSE))
             result  == convertNominatimResultToHybrid(nominatimResult)
         IN  IF ~nominatimResult.def
             THEN FinishRow(NotFoundRow(CurrentRow), lookups, NoResult, 0, NoPoint)
             ELSE IF ~result.def
             THEN FinishRow(NotFoundRow(CurrentRow), lookups, NoResult, 0,
                            nominatimResult)
             ELSE FinishRow(applyGeocodingResult(CurrentRow, result,
                                                 "STREET_NUMBER"),
                            lookups, result, Len(lookups), nominatimResult)

\* geocoding.ts geocodeWithNominatim 248: the fetch of query req.q resolved
NominatimQueryReturn ==
    /\ UNCHANGED <<clsVars, batchVars, netVars, loadVars, restVars>>
    /\ pc = "nominatimQuery"
    /\ inflight # << >>
    /\ \E item \in NominatimItems :
         LET lookups == Append(chain, LookupEntry("NOMINATIM", item.point,
                                                  item.netivotByName))
             result  == TagFallbackCoords(item.point)
         IN  IF NominatimItemAccepted(item)
             THEN /\ FinishRow(applyGeocodingResult(CurrentRow, result, req.kind),
                               lookups, result, Len(lookups), item.point)
                  /\ inflight' = Tail(inflight)
             ELSE IF req.q < Len(req.queries)
             THEN Await("nominatimQuery", "NOMINATIM",
                        [req EXCEPT !.q = req.q + 1], lookups, Tail(inflight))
             ELSE /\ FinishRow(NotFoundRow(CurrentRow), lookups, NoResult, 0,
                               NoPoint)
                  /\ inflight' = Tail(inflight)

\* processRows returned; startProcessing: setRows(processedRows), finally
PassDone ==
    /\ UNCHANGED <<clsVars, batchVars, netVars, loadVars, restVars>>
    /\ pc = "rows"
    /\ Len(results) = Len(addressRows)
    /\ pc' = "done"
    /\ IF direct THEN UNCHANGED <<rows, isProcessing>>
       ELSE rows' = results /\ isProcessing' = FALSE
    /\ UNCHANGED <<uploadedFile, error, gisVars, direct, addressRows, results,
                   req, inflight, chain, traces>>

RowsNext ==
    \/ HandleFileUpload
    \/ StartProcessing
    \/ ReadExcelDone
    \/ ReadExcelFail
    \/ LoadLayerDone
    \/ LoadLayerFail
    \/ LoadSegmentsDone
    \/ LoadSegmentsFail
    \/ ProcessExcelRows
    \/ ProcessRowStart
    \/ GovmapReturn
    \/ Govmap2Return
    \/ NominatimReturn
    \/ NominatimQueryReturn
    \/ PassDone

SpecRows == RowsInit /\ [][RowsNext]_vars


(***************************************************************************)
(* The cache flow: App.tsx handleFileUpload, startProcessing and           *)
(* classifyRowFromCache over geocoding.ts batchGeocode.  The rows are      *)
(* classified from the cache before the batch, after every address a       *)
(* worker has finished, and once more when the batch is over.              *)
(***************************************************************************)
\* App.tsx NETIVOT_BOUNDS (31.38..31.47, 34.55..34.63) on the metre grid
AppMinLat == -2224
AppMaxLat == 7783
AppMinLon == 0
AppMaxLon == 7588

isInsideNetivot(c) ==
    /\ c.def
    /\ c.lat >= AppMinLat /\ c.lat <= AppMaxLat
    /\ c.lon >= AppMinLon /\ c.lon <= AppMaxLon

getCacheKey(row) ==
    IF row.normalizedAddress.def /\ row.normalizedAddress.v # << >>
    THEN row.normalizedAddress.v
    ELSE IF row.address = << >> THEN << >>
    ELSE IF ~HasNetivot(row.address) THEN row.address \o <<Netivot>>
    ELSE row.address

\* classifyRowFromCache 567-571, startProcessing 887-892
AddressForRules(row) ==
    IF row.normalizedAddress.def /\ row.normalizedAddress.v # << >>
    THEN row.normalizedAddress.v
    ELSE row.address

\* geocoding.ts: the cache is a set of records [address, coords] with one
\* record for an address; NoCoords stands for undefined
getCachedResult(cache, normalizedAddress) ==
    IF \E e \in cache : e.address = normalizedAddress
    THEN (CHOOSE e \in cache : e.address = normalizedAddress).coords
    ELSE NoCoords

setCachedResult(cache, normalizedAddress, coords) ==
    {e \in cache : e.address # normalizedAddress}
        \cup {[address |-> normalizedAddress, coords |-> coords]}

MsgOriginalUsed == "valid address - the original coordinates were used"
MsgOutsideOriginalKept == "the map result is outside Netivot - the original coordinates were kept"
MsgNegligibleChange == "the original coordinates are valid (negligible change)"
MsgUpdatedByNominatim == "updated by Nominatim"

\* classifyRowFromCache 631-661: the cache has a result
ClassifyWithResult(row, result, origInside) ==
    IF ~isInsideNetivot(result) /\ origInside
    THEN [row EXCEPT !.status = "CONFIRMED", !.finalCoords = NoCoords,
                     !.message = <<MsgOutsideOriginalKept>>]
    ELSE IF origInside
            /\ distanceMeters(row.originalCoords.lat, row.originalCoords.lon,
                              result.lat, result.lon) <= 30
    THEN [row EXCEPT !.status = "CONFIRMED", !.finalCoords = NoCoords,
                     !.message = <<MsgNegligibleChange>>]
    ELSE [row EXCEPT !.status = "UPDATED", !.finalCoords = result,
                     !.message = <<MsgUpdatedByNominatim>>]

\* classifyRowFromCache 608-629: the cache has no result
ClassifyFromResult(row, allowNotFound, result, origInside) ==
    IF result.def THEN ClassifyWithResult(row, result, origInside)
    ELSE IF ~allowNotFound THEN row
    ELSE IF origInside
    THEN [row EXCEPT !.status = "CONFIRMED", !.finalCoords = NoCoords,
                     !.message = <<MsgOriginalUsed>>]
    ELSE [row EXCEPT !.status = "NEEDS_REVIEW", !.finalCoords = NoCoords,
                     !.message = <<MsgNotFound>>]

\* classifyRowFromCache 585-606: a row that is still PENDING
ClassifyPendingRow(row, allowNotFound, cache) ==
    IF isMissingFullAddress(AddressForRules(row))
    THEN IF ~allowNotFound THEN row
         ELSE [row EXCEPT !.status = "SKIPPED", !.finalCoords = NoCoords,
                          !.message = IF isCityOnlyAddress(AddressForRules(row))
                                      THEN <<MsgMissingAddress>>
                                      ELSE <<MsgMissingNumber>>]
    ELSE ClassifyFromResult(row, allowNotFound,
                            IF getCacheKey(row) # << >>
                            THEN getCachedResult(cache, getCacheKey(row))
                            ELSE NoCoords,
                            isInsideNetivot(row.originalCoords))

\* every application classifies the row anew, as the last one does
classifyRowAnew(row, allowNotFound, cache) ==
    ClassifyPendingRow(row, TRUE, cache)

\* classifyRowFromCache; cache is geocodeCache at the time of the call
classifyRowFromCache(row, allowNotFound, cache) ==
    IF row.status \in {"SKIPPED", "CONFIRMED", "UPDATED", "NOT_FOUND",
                       "NEEDS_REVIEW"}
    THEN row
    ELSE ClassifyPendingRow(row, allowNotFound, cache)

\* setRows((prev) => prev.map((row) => classifyRowFromCache(row, ...)))
ClassifyRows(prev, allowNotFound, cache) ==
    [i \in 1..Len(prev) |-> classifyRowFromCache(prev[i], allowNotFound, cache)]

\* startProcessing 880-902: the cache keys of the rows that have a full
\* address, each once
addressesToGeocode(rs) ==
    Dedupe(SelectSeq([i \in 1..Len(rs) |->
                         IF isMissingFullAddress(AddressForRules(rs[i]))
                         THEN << >> ELSE getCacheKey(rs[i])],
                     LAMBDA k : k # << >>))

\* geocoding.ts geocodeNetivot for one answer of the government adapter
\* and one item of the open-data provider
geocodeNetivot(normalizedAddress, govResult, item) ==
    IF GovmapAccepted(govResult) THEN Coords(govResult.lat, govResult.lon)
    ELSE IF buildNominatimQueries(normalizedAddress) # << >>
            /\ NominatimItemAccepted(item)
    THEN Coords(item.point.lat, item.point.lon)
    ELSE NoCoords

\* processItem has returned for an address: from the cache (304-307) or
\* after geocodeNetivot has settled (309-317); h counts the returns
Handle(h, address, how) ==
    IF \E e \in h : e.address = address
    THEN {IF e.address = address THEN [e EXCEPT !.times = @ + 1] ELSE e : e \in h}
    ELSE h \cup {[address |-> address, times |-> 1, how |-> how]}

\* a worker that reads the head of the queue and leaves it there
WorkerLoopStepPeek(st, w, cache) ==
    IF st.workers[w].pc = "none" THEN st
    ELSE IF st.queue = << >>
    THEN [st EXCEPT !.workers[w] = [pc |-> "done", address |-> << >>]]
    ELSE IF \E e \in cache : e.address = Head(st.queue)
    THEN [queue   |-> st.queue,
          workers |-> [st.workers EXCEPT ![w] = [pc |-> "loop", address |-> << >>]],
          rows    |-> ClassifyRows(st.rows, FALSE, cache),
          handled |-> Handle(st.handled, Head(st.queue), "cache")]
    ELSE [queue   |-> st.queue,
          workers |-> [st.workers EXCEPT
                          ![w] = [pc |-> "geocode", address |-> Head(st.queue)]],
          rows    |-> st.rows,
          handled |-> st.handled]

\* batchGeocode 320-329, one worker from the head of its loop to its next
\* await; st is [queue, workers, rows, handled]
WorkerLoopStep(st, w, cache) ==
    \* Array(concurrency): a worker beyond the width does not exist
    IF st.workers[w].pc = "none" THEN st
    ELSE IF st.queue = << >>
    THEN [st EXCEPT !.workers[w] = [pc |-> "done", address |-> << >>]]
    \* processItem 304-307: a cache hit reports progress and returns
    ELSE IF \E e \in cache : e.address = Head(st.queue)
    THEN [queue   |-> Tail(st.queue),
          workers |-> [st.workers EXCEPT ![w] = [pc |-> "loop", address |-> << >>]],
          rows    |-> ClassifyRows(st.rows, FALSE, cache),
          handled |-> Handle(st.handled, Head(st.queue), "cache")]
    ELSE [queue   |-> Tail(st.queue),
          workers |-> [st.workers EXCEPT
                          ![w] = [pc |-> "geocode", address |-> Head(st.queue)]],
          rows    |-> st.rows,
          handled |-> st.handled]

\* batchGeocode 320-329: the workers are started one after the other
RECURSIVE RunWorkers(_, _, _)
RunWorkers(st, w, cache) ==
    IF w > Concurrency THEN st
    ELSE RunWorkers(WorkerLoopStep(st, w, cache), w + 1, cache)

\* the sheets of the cache flow and what the providers may answer
BatchOriginalInside == Coords(6010, 7000)
BatchOriginalOutside == Coords(6000, 9000)

BatchRecords ==
    { RawRecord(<<"Herzl", "3", Netivot>>, BatchOriginalInside),
      RawRecord(<<"Herzl", "3", Netivot>>, NoCoords),
      RawRecord(<<"Weizmann", "5", Netivot>>, BatchOriginalOutside),
      RawRecord(<<Netivot>>, NoCoords),
      RawRecord(<<"Gan">>, BatchOriginalInside) }

BatchFiles ==
    {[def |-> TRUE, readable |-> TRUE, data |-> d] :
        d \in UNION {[1..n -> BatchRecords] : n \in 1..MaxRows}}

BatchGovmapResponses == {NoPoint, PointOf(<<6000, 7000>>)}

BatchNominatimItems ==
    { [point |-> NoPoint, netivotByName |-> FALSE],
      [point |-> PointOf(<<6500, 7000>>), netivotByName |-> FALSE],
      [point |-> PointOf(<<6000, minLon - 500>>), netivotByName |-> TRUE] }

BatchInit ==
    /\ clsRow = NewRow(<< >>, Null, NoCoords)
    /\ clsResult = NoResult
    /\ clsType = "UNKNOWN"
    /\ clsOut = NewRow(<< >>, Null, NoCoords)
    /\ RowsQuiet
    /\ BatchQuiet
    /\ NetQuiet
    /\ LoadQuiet
    /\ RestQuiet

notBatchVars ==
    <<clsVars, uploadedFile, error, gisVars, passVars, netVars, loadVars, restVars>>

\* handleFileUpload up to `await readExcel(file)`; the input is disabled
\* while isProcessing
BatchHandleFileUpload ==
    /\ ~isProcessing
    /\ ~reading.def
    /\ \E file \in BatchFiles \cup {UnreadableFile} : reading' = file
    /\ UNCHANGED <<notBatchVars, rows, isProcessing, geocodeCache, queue, workers,
                   handled>>

\* handleFileUpload 819-867: readExcel resolved, setRows(newRows)
BatchReadExcelResolved ==
    /\ reading.def
    /\ reading.readable
    /\ rows' = [i \in 1..Len(reading.data) |-> PreviewRecord(reading.data[i])]
    /\ reading' = NoFile
    /\ UNCHANGED <<notBatchVars, isProcessing, geocodeCache, queue, workers,
                   handled>>

\* handleFileUpload 868-871: readExcel rejected
BatchReadExcelRejected ==
    /\ reading.def
    /\ ~reading.readable
    /\ reading' = NoFile
    /\ UNCHANGED <<notBatchVars, rows, isProcessing, geocodeCache, queue, workers,
                   handled>>

SetBatchState(st) ==
    /\ queue' = st.queue
    /\ handled' = st.handled
    /\ workers' = st.workers
    /\ rows' = st.rows

\* the widths batchGeocode is run with: the one App.tsx passes, and a single
\* worker (batchGeocode takes any width)
Widths == {1, Concurrency}

\* startProcessing up to `await batchGeocode`; the button is rendered when
\* the first row is PENDING and nothing is being processed
BatchStartProcessing ==
    /\ ~isProcessing
    /\ rows # << >>
    /\ rows[1].status = "PENDING"
    /\ isProcessing' = TRUE
    /\ \E concurrency \in Widths :
         SetBatchState(
           RunWorkers([queue   |-> addressesToGeocode(rows),
                       workers |-> [w \in 1..Concurrency |->
                                       [pc |-> IF w <= concurrency
                                               THEN "loop" ELSE "none",
                                        address |-> << >>]],
                       rows    |-> ClassifyRows(rows, FALSE, geocodeCache),
                       handled |-> {}],
                      1, geocodeCache))
    /\ UNCHANGED <<notBatchVars, geocodeCache, reading>>

\* a worker goes on after a cache hit or after its pause
WorkerLoop ==
    /\ \E w \in 1..Concurrency :
          /\ workers[w].pc \in {"loop", "pause"}
          /\ SetBatchState(
                 WorkerLoopStep([queue |-> queue, workers |-> workers,
                                 rows |-> rows, handled |-> handled],
                                w, geocodeCache))
    /\ UNCHANGED <<notBatchVars, isProcessing, geocodeCache, reading>>

\* processItem 309-317: geocodeNetivot resolved; the result is cached and
\* onProgress applies the partial results
WorkerGeocoded ==
    /\ \E w \in 1..Concurrency :
          /\ workers[w].pc = "geocode"
          /\ \E govResult \in BatchGovmapResponses, item \in BatchNominatimItems :
                geocodeCache' =
                    IF geocodeNetivot(workers[w].address, govResult, item).def
                    THEN setCachedResult(geocodeCache, workers[w].address,
                             geocodeNetivot(workers[w].address, govResult, item))
                    ELSE geocodeCache
          /\ workers' = [workers EXCEPT ![w] = [pc |-> "pause", address |-> << >>]]
          /\ handled' = Handle(handled, workers[w].address, "chain")
    /\ rows' = ClassifyRows(rows, FALSE, geocodeCache')
    /\ UNCHANGED <<notBatchVars, isProcessing, queue, reading>>

\* startProcessing 922-924: batchGeocode resolved
BatchDone ==
    /\ isProcessing
    /\ \A w \in 1..Concurrency : workers[w].pc \in {"done", "none"}
    /\ rows' = ClassifyRows(rows, TRUE, geocodeCache)
    /\ isProcessing' = FALSE
    /\ workers' = [w \in 1..Concurrency |-> [pc |-> "idle", address |-> << >>]]
    /\ handled' = {}
    /\ UNCHANGED <<notBatchVars, geocodeCache, queue, reading>>

BatchNext ==
    \/ BatchHandleFileUpload
    \/ BatchReadExcelResolved
    \/ BatchReadExcelRejected
    \/ BatchStartProcessing
    \/ WorkerLoop
    \/ WorkerGeocoded
    \/ BatchDone

SpecBatch == BatchInit /\ [][BatchNext]_vars

(***************************************************************************)
(* Properties of a pass (SpecRows)                                         *)
(***************************************************************************)
TerminalStatuses == {"CONFIRMED", "UPDATED", "NEEDS_REVIEW", "NOT_FOUND", "SKIPPED"}

CanonicalWithHouseNumber(a) ==
    /\ a.def
    /\ Len(a.v) >= 4
    /\ a.v[Len(a.v)] = Netivot
    /\ a.v[Len(a.v) - 1] = Comma
    /\ IsNum(a.v[Len(a.v) - 2])
    /\ \A i \in 1..(Len(a.v) - 3) :
          ~IsNum(a.v[i]) /\ a.v[i] \notin {Comma, Slash, Dash, Netivot}

\* C6: a row whose canonical address has a house number is never SKIPPED.
C6_HouseNumberNeverSkipped ==
    \A i \in 1..Len(results) :
        CanonicalWithHouseNumber(addressRows[i].normalizedAddress)
            => results[i].status # "SKIPPED"

\* C7: a row whose address is exactly the city name ends SKIPPED with the
\* address-missing message, and no provider was called for it.
C7_CityOnlySkippedWithoutCalls ==
    \A i \in 1..Len(results) :
        addressRows[i].address = <<Netivot>>
            => /\ results[i].status = "SKIPPED"
               /\ results[i].message = <<MsgMissingAddress>>
               /\ traces[i].called = {}

SourceRank(source) ==
    IF source = "GIS" THEN 1 ELSE IF source = "GOVMAP" THEN 2 ELSE 3

\* the lookup gave no point, or a point the code does not take: a
\* government point outside the box, an open-data item that neither lies in
\* the box nor names the city
LookupFailed(lookup) ==
    \/ ~lookup.point.def
    \/ /\ lookup.source \in {"GOVMAP", "NOMINATIM"}
       /\ ~isWithinNetivotBounds(lookup.point.lat, lookup.point.lon)
       /\ ~lookup.netivotByName

\* C8: at most one provider call is in flight; while one is, every earlier
\* lookup of the request failed or was rejected by the boundary check, the
\* lookups were made in priority order, and no source of higher priority
\* was left out (layer, government, open data for StreetNumber; government,
\* open data for Intersection/POI).
C8_PriorityOrder ==
    /\ Len(inflight) <= 1
    /\ inflight # << >> =>
          /\ \A i \in 1..Len(chain) : LookupFailed(chain[i])
          /\ \A i \in 1..Len(chain) :
                SourceRank(chain[i].source) <= SourceRank(inflight[1])
          /\ \A i, j \in 1..Len(chain) :
                i <= j => SourceRank(chain[i].source) <= SourceRank(chain[j].source)
          /\ (inflight[1] = "NOMINATIM"
                => \E i \in 1..Len(chain) : chain[i].source = "GOVMAP")
          /\ (req.kind = "STREET_NUMBER"
                => chain # << >> /\ chain[1].source = "GIS")
          /\ (req.kind # "STREET_NUMBER"
                => \A i \in 1..Len(chain) : chain[i].source # "GIS")

\* the open-data adapter is awaited after the layer had no match and the
\* government point was rejected for lying outside the box
C8_Witness ==
    /\ inflight = <<"NOMINATIM">>
    /\ Len(chain) = 2
    /\ chain[1].source = "GIS"
    /\ chain[2].source = "GOVMAP"
    /\ chain[2].point.def

\* C9: a government point is the result of a request only if it lies in
\* the box, and the result then carries the government source and
\* confidence 0.75; this for StreetNumber and for Intersection/POI requests.
C9_GovernmentPointTagged ==
    \A i \in 1..Len(traces) :
        traces[i].origin = "GOVMAP"
            => /\ traces[i].result.def
               /\ isWithinNetivotBounds(traces[i].result.lat, traces[i].result.lon)
               /\ traces[i].result.source = "GOVMAP"
               /\ traces[i].result.confidence = 75

StatusKept ==
    \A i \in 1..Len(rows) :
        rows[i].status # "PENDING"
            => /\ i <= Len(rows')
               /\ rows'[i].status = rows[i].status

\* C5: while the rows of a sheet are on the table (every step but the one
\* that puts the rows of a newly read sheet there), a row that has left
\* PENDING keeps its status: its status changes at most once, from PENDING
\* to a terminal status, and never goes back to PENDING, however often the
\* partial results are applied.
C5_StatusChangesOnce == [][BatchReadExcelResolved \/ StatusKept]_vars

\* a batch is running: a row has its terminal status from the partial
\* results, another is still PENDING, and a worker awaits an address after
\* which the partial results are applied again
C5_Witness ==
    /\ isProcessing
    /\ \E i \in 1..Len(rows) : rows[i].status \in {"UPDATED", "CONFIRMED"}
    /\ \E i \in 1..Len(rows) : rows[i].status = "PENDING"
    /\ \E w \in 1..Concurrency : workers[w].pc = "geocode"

(***************************************************************************)
(* Properties of the spatial index (SpecRows)                              *)
(***************************************************************************)
\* lookupAddress 741-779: the numbered features of the street the lookup
\* resolves a name to, by its exact name or else by the best fuzzy match
ResolvedStreetFeatures(features, normalized) ==
    IF StreetFeatures(features, normalized) # << >>
    THEN StreetFeatures(features, normalized)
    ELSE IF findBestStreetNameMatch(normalized,
                                    UniqueStreetCandidates(features)).best.def
    THEN StreetFeatures(features,
             findBestStreetNameMatch(normalized,
                                     UniqueStreetCandidates(features)).best.v)
    ELSE << >>

\* the queried house number is the number of a feature of the resolved street
ExactNumberMatched(features, street, houseNumber) ==
    \E k \in 1..Len(ResolvedStreetFeatures(features, normalizeStreetName(street))) :
        ResolvedStreetFeatures(features, normalizeStreetName(street))[k].houseNumber
            = houseNumber

\* C11: the result of a row that came from the spatial index has the method
\* GIS_EXACT exactly when the queried house number is the number of a
\* feature of the resolved street (resolved exactly or by fuzzy matching),
\* and the method GIS_INTERPOLATED exactly when it is not (the coordinate
\* was interpolated).
C11_MethodFollowsNumberMatch ==
    \A i \in 1..Len(traces) :
        traces[i].origin = "GIS"
            => LET prep == StreetNumberPreparation(addressRows[i],
                                                   RawAddressOf(addressRows[i]))
               IN  IF ExactNumberMatched(addressFeatures, prep.street,
                                         prep.houseNumber)
                   THEN traces[i].result.method = "GIS_EXACT"
                   ELSE traces[i].result.method = "GIS_INTERPOLATED"

(***************************************************************************)
(* Further properties of the classifier (SpecClassify)                     *)
(***************************************************************************)
\* the status mapConfidenceToStatus gives the result, before any rule
ClsTentativeStatus == mapConfidenceToStatus(clsResult, ClsInBounds)

ClsNearOriginal ==
    /\ ClsHasOriginal /\ ClsInBounds
    /\ ClsDistance <= (IF clsType = "STREET_NUMBER" THEN 100 ELSE 250)

ClsOpenData2000 ==
    /\ clsType = "STREET_NUMBER" /\ clsResult.source = "NOMINATIM"
    /\ clsResult.confidence = 60
    /\ ClsHasOriginal /\ ClsDistance = 2000
    /\ isWithinNetivotBounds(clsRow.originalCoords.lat, clsRow.originalCoords.lon)

\* C14: a StreetNumber result of the open-data source with confidence 0.6
\* that lies 2000 m from the row's prior in-boundary coordinate ends
\* NEEDS_REVIEW.
C14_OpenDataFarNeedsReview ==
    (Applied /\ ClsOpenData2000) => clsOut.status = "NEEDS_REVIEW"

\* the scenario has been classified, with the result itself inside the box
\* and the distance warning in the message
C14_Witness ==
    /\ Applied /\ ClsOpenData2000 /\ ClsInBounds
    /\ clsOut.status = "NEEDS_REVIEW"
    /\ Len(clsOut.message) = 2

ClsStatusWithoutOriginal ==
    applyGeocodingResult([clsRow EXCEPT !.originalCoords = NoCoords],
                         clsResult, clsType).status

TimeoutMs == 8000
PauseMs == 1000
MaxItems == 2

\* how long a fetch takes to settle; a fetch no timer aborts may take longer
\* than any timer would have allowed
FetchDurations == {200}
UnboundedDurations == FetchDurations \cup {9000}

\* how a fetch settles: a usable point that is accepted, a response without
\* one, a status that is not ok, a rejection that is not an abort
Settlements == {"point", "nothing", "notOk", "rejected"}

\* govmapService.ts, and the three geocodeWithGovmap of part_005: through
\* the proxy (DEV), direct with a timer, direct without one
GovmapBuilds == {"stub", "dev", "prod", "plain"}

WorkAddresses ==
    {<<"Weizmann", "5">>, <<"Herzl", Slash, "Weizmann">>, <<"Herzl", "3">>}

\* batchGeocode is given cache keys, each once; processRows takes the rows
\* of the sheet as they are
WorkQueues(loop) ==
    LET all == UNION {[1..n -> WorkAddresses] : n \in 1..MaxItems}
    IN  IF loop = "batchGeocode"
        THEN {[i \in 1..Len(q) |-> q[i] \o <<Netivot>>] :
                q \in {r \in all : \A i, j \in 1..Len(r) : i # j => r[i] # r[j]}}
        ELSE all

ResolvedCoords == Coords(6000, 7000)

\* what an earlier batch may have left in the cache
CachesBefore ==
    {{}, {[address |-> <<"Herzl", "3", Netivot>>, coords |-> ResolvedCoords]}}

\* the state the operators below work on
NetState ==
    [work |-> work, awaiting |-> awaiting, call |-> call, lastAt |-> lastAt,
     timedOut |-> timedOut, now |-> now, cache |-> geocodeCache]

\* fetch(...) is awaited; armed: with the signal of a controller a timer aborts
Send(n, await, provider, query, armed) ==
    [n EXCEPT !.awaiting = await,
              !.call = [def |-> TRUE, provider |-> provider, query |-> query,
                        armed |-> armed, at |-> n.now,
                        prev |-> n.lastAt[provider]],
              !.lastAt[provider] = n.now]

\* the fetch settled after d milliseconds
Settled(n, d) == [n EXCEPT !.now = @ + d, !.call = NoCall]

\* the timer aborted the fetch
Aborted(n) ==
    [n EXCEPT !.now = @ + TimeoutMs, !.call = NoCall,
              !.timedOut = @ \cup {[provider |-> n.call.provider,
                                    query |-> n.call.query]}]

\* the address is done: processItem 309-317 stores a result and pauses,
\* processRows 869-870 goes on with the next row
Finished(n, found) ==
    IF caller = "batchGeocode"
    THEN [n EXCEPT !.awaiting = "pause",
                   !.work.done = IF found THEN "found" ELSE "failed",
                   !.cache = IF found
                             THEN setCachedResult(@, n.work.address, ResolvedCoords)
                             ELSE @]
    ELSE [n EXCEPT !.awaiting = "loop",
                   !.work.done = IF found THEN "found" ELSE "failed"]

\* geocoding.ts geocodeWithNominatim 225-244: the first query is fetched
LegacyNominatim(n) ==
    IF n.work.queries = << >> THEN Finished(n, FALSE)
    ELSE Send([n EXCEPT !.work.q = 1], "legacyQuery", "NOMINATIM",
              n.work.queries[1], FALSE)

\* geocodeWithGovmap up to its first fetch
SendGovmap(n, within, query) ==
    LET m == [n EXCEPT !.work.within = within]
    IN  IF govmapBuild = "dev" THEN Send(m, "post", "GOVMAP", query, TRUE)
        ELSE IF govmapBuild = "prod" THEN Send(m, "get", "GOVMAP", query, TRUE)
        ELSE Send(m, "plainGet", "GOVMAP", query, FALSE)

\* geocodeNetivot 284-290 after geocodeWithGovmap
NetivotGovmapReturned(n, found) ==
    IF found THEN Finished(n, TRUE) ELSE LegacyNominatim(n)

\* geocodeNetivot 282
geocodeNetivotStart(n) ==
    IF govmapBuild = "stub" THEN NetivotGovmapReturned(n, FALSE)
    ELSE SendGovmap(n, "geocodeNetivot", n.work.address)

\* hybridGeocoder.ts buildNominatimQuery
buildNominatimQuery(street, houseNumber) ==
    normalizeStreetText(street) \o <<NumStr(houseNumber), Comma, Netivot, Comma, "Israel">>

\* hybridGeocoder.ts geocode 360-398 and geocodeRequest 454-489 after
\* geocodeWithGovmap
RequestGovmapReturned(n, found) ==
    IF found THEN Finished(n, TRUE)
    ELSE IF n.work.kind = "STREET_NUMBER"
    THEN Send(n, "hybridQuery", "NOMINATIM",
              buildNominatimQuery(n.work.street, n.work.houseNumber), TRUE)
    ELSE geocodeNetivotStart(n)

\* hybridGeocoder.ts geocode 356-360 and geocodeRequest 450-454
geocodeRequestStart(n) ==
    IF govmapBuild = "stub" THEN RequestGovmapReturned(n, FALSE)
    ELSE SendGovmap(n, "geocodeRequest",
                    IF n.work.kind = "STREET_NUMBER"
                    THEN normalizeStreetText(n.work.street)
                             \o <<NumStr(n.work.houseNumber), Comma, Netivot>>
                    ELSE n.work.address \o <<Comma, Netivot>>)

\* geocodeWithGovmap returned to the function that called it
GovmapReturned(n, found) ==
    IF n.work.within = "geocodeNetivot" THEN NetivotGovmapReturned(n, found)
    ELSE RequestGovmapReturned(n, found)

\* processRow for an address that is not empty: only a street and number the
\* layer has no match for, an intersection or a point of interest reach the
\* providers
processRowProviders(n) ==
    IF n.work.kind = "STREET_NUMBER"
    THEN IF n.work.early \/ n.work.matched
         THEN [n EXCEPT !.awaiting = "loop", !.work.done = "local"]
         ELSE geocodeRequestStart(n)
    ELSE IF n.work.kind \in {"INTERSECTION", "POI"}
    THEN geocodeRequestStart(n)
    ELSE [n EXCEPT !.awaiting = "loop", !.work.done = "local"]

\* the address as processRow 335, processStreetNumberAddress, the layer and
\* buildNominatimQueries see it
WorkOn(address, kind, prep, queries) ==
    [NoItem EXCEPT
        !.address = address,
        !.kind = kind,
        !.early = prep.def,
        !.street = prep.street,
        !.houseNumber = prep.houseNumber,
        !.matched = kind = "STREET_NUMBER" /\ ~prep.def
                      /\ lookupAddress(addressLayerLoaded, addressFeatures,
                                       prep.street, prep.houseNumber).def,
        !.queries = queries]

\* processItem 304-309
processItem(n) ==
    IF \E e \in n.cache : e.address = n.work.address
    THEN [n EXCEPT !.awaiting = "loop", !.work.done = "hit"]
    ELSE geocodeNetivotStart(n)

SetNet(n) ==
    /\ work' = n.work
    /\ awaiting' = n.awaiting
    /\ call' = n.call
    /\ lastAt' = n.lastAt
    /\ timedOut' = n.timedOut
    /\ now' = n.now
    /\ geocodeCache' = n.cache

notNetVars ==
    <<clsVars, rowsVars, queue, workers, reading, handled, loadVars, restVars>>

CallsInit ==
    /\ clsRow = NewRow(<< >>, Null, NoCoords)
    /\ clsResult = NoResult
    /\ clsType = "UNKNOWN"
    /\ clsOut = NewRow(<< >>, Null, NoCoords)
    /\ uploadedFile = NoFile
    /\ rows = << >>
    /\ isProcessing = TRUE
    /\ error = ""
    /\ geocoderInitialized = TRUE
    /\ initialized = TRUE
    /\ addressLayerLoaded = TRUE
    /\ addressFeatures = AddressLayer
    /\ streetSegmentsLoaded = TRUE
    /\ pc = "idle"
    /\ direct = FALSE
    /\ addressRows = << >>
    /\ results = << >>
    /\ req = NoRequest
    /\ inflight = << >>
    /\ chain = << >>
    /\ traces = << >>
    /\ queue = << >>
    /\ handled = {}
    /\ workers = [w \in 1..Concurrency |-> [pc |-> "idle", address |-> << >>]]
    /\ reading = NoFile
    /\ govmapBuild \in GovmapBuilds
    /\ caller \in {"batchGeocode", "processRows"}
    \* the cache outlives a batch; nothing but batchGeocode writes to it
    /\ geocodeCache \in IF caller = "batchGeocode" THEN CachesBefore ELSE {{}}
    /\ todo \in WorkQueues(caller)
    /\ work = NoItem
    /\ awaiting = "loop"
    /\ call = NoCall
    /\ lastAt = [p \in Providers |-> -1]
    /\ timedOut = {}
    /\ now = 0
    /\ LoadQuiet
    /\ RestQuiet

\* batchGeocode 322-327 / processRows 863-869: the loop takes the next
\* address, up to the first await
TakeNext ==
    /\ awaiting = "loop"
    /\ todo # << >>
    /\ todo' = Tail(todo)
    /\ \E prep \in {StreetNumberPreparation(NewRow(Head(todo), Null, NoCoords),
                                             Head(todo))} :
       \E item \in {WorkOn(Head(todo), classifyAddressType(Head(todo)), prep,
                           buildNominatimQueries(Head(todo)))} :
          SetNet(IF caller = "batchGeocode"
                 THEN processItem([NetState EXCEPT !.work = item,
                                                   !.timedOut = {}])
                 ELSE processRowProviders([NetState EXCEPT !.work = item,
                                                           !.timedOut = {}]))
    /\ UNCHANGED <<notNetVars, govmapBuild, caller>>

\* the queue is empty, the rows are through
LoopEnds ==
    /\ awaiting = "loop"
    /\ todo = << >>
    /\ awaiting' = "done"
    /\ UNCHANGED <<notNetVars, geocodeCache, govmapBuild, caller, todo, work, call,
                   lastAt, timedOut, now>>

\* geocodeWithProxy 117-144: the POST settled; a status that is not ok is
\* followed by a GET with a timer of its own
PostSettles ==
    /\ awaiting = "post"
    /\ \E d \in FetchDurations, how \in Settlements :
          SetNet(IF how = "notOk"
                 THEN Send(Settled(NetState, d), "postGet", "GOVMAP",
                           call.query, TRUE)
                 ELSE GovmapReturned(Settled(NetState, d), how = "point"))
    /\ UNCHANGED <<notNetVars, govmapBuild, caller, todo>>

\* geocodeWithProxy 135-176: the GET after the POST settled
PostGetSettles ==
    /\ awaiting = "postGet"
    /\ \E d \in FetchDurations, how \in Settlements :
          SetNet(GovmapReturned(Settled(NetState, d), how = "point"))
    /\ UNCHANGED <<notNetVars, govmapBuild, caller, todo>>

\* geocodeWithProxy 179-188: the timer of the POST or of the GET fired; the
\* catch sends the GET once more, without a signal
ProxyTimerFires ==
    /\ awaiting \in {"post", "postGet"}
    /\ call.armed
    /\ SetNet(Send(Aborted(NetState), "fallbackGet", "GOVMAP", call.query, FALSE))
    /\ UNCHANGED <<notNetVars, govmapBuild, caller, todo>>

\* geocodeWithProxy 189-220: the GET of the catch settled
FallbackGetSettles ==
    /\ awaiting = "fallbackGet"
    /\ \E d \in UnboundedDurations, how \in Settlements :
          SetNet(GovmapReturned(Settled(NetState, d), how = "point"))
    /\ UNCHANGED <<notNetVars, govmapBuild, caller, todo>>

\* part_005 geocodeWithGovmap 43-91: the fetch settled
GetSettles ==
    /\ awaiting = "get"
    /\ \E d \in FetchDurations, how \in Settlements :
          SetNet(GovmapReturned(Settled(NetState, d), how = "point"))
    /\ UNCHANGED <<notNetVars, govmapBuild, caller, todo>>

\* part_005 geocodeWithGovmap 92-99: the timer fired, null is returned
GetTimerFires ==
    /\ awaiting = "get"
    /\ call.armed
    /\ SetNet(GovmapReturned(Aborted(NetState), FALSE))
    /\ UNCHANGED <<notNetVars, govmapBuild, caller, todo>>

\* part_005 geocodeWithGovmap 251-294: the fetch, which has no timer, settled
PlainGetSettles ==
    /\ awaiting = "plainGet"
    /\ \E d \in UnboundedDurations, how \in Settlements :
          SetNet(GovmapReturned(Settled(NetState, d), how = "point"))
    /\ UNCHANGED <<notNetVars, govmapBuild, caller, todo>>

\* geocoding.ts geocodeWithNominatim 244-273: the fetch of a query, which
\* has no timer, settled; the next query is fetched at once
LegacyQuerySettles ==
    /\ awaiting = "legacyQuery"
    /\ \E d \in UnboundedDurations, how \in Settlements :
          SetNet(IF how = "point" THEN Finished(Settled(NetState, d), TRUE)
                 ELSE IF how = "rejected" \/ work.q = Len(work.queries)
                 THEN Finished(Settled(NetState, d), FALSE)
                 ELSE Send([Settled(NetState, d) EXCEPT !.work.q = @ + 1],
                           "legacyQuery", "NOMINATIM",
                           work.queries[work.q + 1], FALSE))
    /\ UNCHANGED <<notNetVars, govmapBuild, caller, todo>>

\* hybridGeocoder.ts geocodeWithNominatim 139-196: the fetch settled
HybridQuerySettles ==
    /\ awaiting = "hybridQuery"
    /\ \E d \in FetchDurations, how \in Settlements :
          SetNet(Finished(Settled(NetState, d), how = "point"))
    /\ UNCHANGED <<notNetVars, govmapBuild, caller, todo>>

\* hybridGeocoder.ts geocodeWithNominatim 133-159: the timer fired, null is
\* returned
HybridTimerFires ==
    /\ awaiting = "hybridQuery"
    /\ call.armed
    /\ SetNet(Finished(Aborted(NetState), FALSE))
    /\ UNCHANGED <<notNetVars, govmapBuild, caller, todo>>

\* processItem 317: the pause is over
PauseOver ==
    /\ awaiting = "pause"
    /\ now' = now + PauseMs
    /\ awaiting' = "loop"
    /\ UNCHANGED <<notNetVars, geocodeCache, govmapBuild, caller, todo, work, call,
                   lastAt, timedOut>>

CallsNext ==
    \/ TakeNext
    \/ LoopEnds
    \/ PostSettles
    \/ PostGetSettles
    \/ ProxyTimerFires
    \/ FallbackGetSettles
    \/ GetSettles
    \/ GetTimerFires
    \/ PlainGetSettles
    \/ LegacyQuerySettles
    \/ HybridQuerySettles
    \/ HybridTimerFires
    \/ PauseOver

SpecCalls == CallsInit /\ [][CallsNext]_vars

(***************************************************************************)
(* Properties of the provider calls (SpecCalls)                            *)
(***************************************************************************)
\* the request in flight repeats one the timer has aborted
RepeatsTimedOut ==
    call.def /\ [provider |-> call.provider, query |-> call.query] \in timedOut

\* C17: every provider call is bounded by a timer of its own, and after
\* the timer has aborted a call no further request for the same query is
\* sent to that provider.
C17_TimerBoundsEveryCall ==
    call.def => call.armed /\ ~RepeatsTimedOut

InCache(address) == \E e \in geocodeCache : e.address = address

\* C18: no provider call is made for an address whose key is in the cache,
\* every address the providers resolved is in the cache under its key, and
\* an address they failed to resolve is not.
C18_CacheReadBeforeWrittenAfter ==
    /\ call.def => ~InCache(work.address)
    /\ work.done = "found" => InCache(work.address)
    /\ work.done = "failed" => ~InCache(work.address)

\* the same, for the worker of batchGeocode alone
CacheDisciplineOfBatchGeocode ==
    caller = "batchGeocode" => C18_CacheReadBeforeWrittenAfter

\* a worker of batchGeocode has resolved an address and stored it next to
\* the one an earlier batch left in the cache
CacheDisciplineOfBatchGeocode_Reached ==
    /\ caller = "batchGeocode"
    /\ work.done = "found"
    /\ Cardinality(geocodeCache) = 2
    /\ todo = << >>

\* C19: within a worker of batchGeocode, a request is sent to a provider at
\* least the pause (1 second) after the worker's previous request to the
\* same provider.
C19_MinimumDelayBetweenCalls ==
    (caller = "batchGeocode" /\ call.def /\ call.prev # -1)
        => call.at - call.prev >= PauseMs

(***************************************************************************)
(* Properties of the initialization (SpecRows)                             *)
(***************************************************************************)
\* the rows shown are the rows of the uploaded file as handleFileUpload
\* previewed them
RowsAsUploaded ==
    rows = [i \in 1..Len(uploadedFile.data) |-> PreviewRecord(uploadedFile.data[i])]

\* processExcelFile has thrown after readExcel had resolved: a layer failed
\* to load
LoadFailureReported ==
    /\ pc = "idle"
    /\ error = "error processing the file"
    /\ uploadedFile.readable

LayerPaths == {"/gis/netivot.geojson", "/public/gis/netivot.geojson"}

SegmentPaths == {"/gis/streets_2025.geojson", "/public/gis/streets_2025.geojson"}

\* another address file: the numbers 4 and 8 of one street, and a street
\* whose two-word name no feature of AddressLayer carries
OtherLayer ==
    << Feature(<<"Herzl">>, 4, 6000, 8000),
       Feature(<<"Herzl">>, 8, 6400, 8200),
       Feature(<<"Weizmann", "Gan">>, 2, 5200, 9000),
       Feature(<<"Weizmann", "Gan">>, 10, 6000, 9800) >>

\* loadLayer 533-554: the features parsed from the file behind a path
LayerContent(path) ==
    IF path = "/gis/netivot.geojson" THEN AddressLayer ELSE OtherLayer

\* loadStreetSegmentsLayer 892-917: the street names parsed from the file
\* behind a path; the second file has no feature with a street name
SegmentContent(path) ==
    IF path = "/gis/streets_2025.geojson"
    THEN << <<"Herzl">>, <<"Weizmann", "Haim">> >>
    ELSE << >>

\* loader calls that may wait for their fetch at the same time
MaxLoads == 2

LoadCall(loader, path) == [loader |-> loader, path |-> path]

RemoveAt(s, i) == SubSeq(s, 1, i - 1) \o SubSeq(s, i + 1, Len(s))

\* the inputs of lookupAddress
LookupStreets == {<<"Herzl">>, <<"Weizmann">>}

LookupNumbers == {0, 3, 5, 6, 9}

\* lookupAddress 751-760: the names fuzzy matching goes through are computed
\* from the features on the first fuzzy lookup and kept
CandidatesKept(memo, features) ==
    IF memo.def THEN memo ELSE Some(UniqueStreetCandidates(features))

LookupRecord(streetName, houseNumber, consulted, candidates, streetFeatures,
             fuzzyUsed, result) ==
    [def |-> TRUE, streetName |-> streetName, houseNumber |-> houseNumber,
     consulted |-> consulted, candidates |-> candidates,
     streetFeatures |-> streetFeatures, fuzzyUsed |-> fuzzyUsed,
     lat |-> result.lat, lon |-> result.lon,
     confidence |-> result.confidence, found |-> result.def]

\* lookupAddress 762-783: the street is searched among the kept names
LookupKept(features, kept, fuzzyResult, streetName, houseNumber) ==
    LookupRecord(streetName, houseNumber, TRUE, kept,
        IF fuzzyResult.best.def
        THEN SortByHouseNumber(StreetFeatures(features, fuzzyResult.best.v))
        ELSE << >>,
        fuzzyResult.best.def,
        LookupFuzzy(features, fuzzyResult, houseNumber))

\* lookupAddress 719-847 with the module's memo: what the call returns and
\* what it went through
LookupMade(layerLoaded, features, kept, normalized, exact, streetName, houseNumber) ==
    IF ~layerLoaded \/ streetName = << >> \/ houseNumber <= 0
    THEN LookupRecord(streetName, houseNumber, FALSE, << >>, << >>, FALSE, NoResult)
    ELSE IF exact # << >>
    THEN LookupRecord(streetName, houseNumber, FALSE, << >>,
             SortByHouseNumber(exact), FALSE,
             LookupSorted(SortByHouseNumber(exact), FALSE, houseNumber))
    ELSE LookupKept(features, kept,
             findBestStreetNameMatch(normalized, kept), streetName, houseNumber)

LoadUnchanged ==
    UNCHANGED <<clsVars, appVars, geocoderInitialized, initialized, passVars,
                batchVars, netVars, restVars>>

GisInit ==
    /\ clsRow = NewRow(<< >>, Null, NoCoords)
    /\ clsResult = NoResult
    /\ clsType = "UNKNOWN"
    /\ clsOut = NewRow(<< >>, Null, NoCoords)
    /\ RowsQuiet
    /\ BatchQuiet
    /\ NetQuiet
    /\ LoadQuiet
    /\ RestQuiet

\* loadLayer 486-515: the call up to its fetch
LoadLayerCalled ==
    /\ LoadUnchanged
    /\ \E path \in LayerPaths :
         /\ lastLoad' = [def |-> TRUE, loader |-> "address", path |-> path,
                         current |-> addressLayerLoaded /\ addressLayerPath = path,
                         fetched |-> ~(addressLayerLoaded /\ addressLayerPath = path)]
         /\ IF addressLayerLoaded /\ addressLayerPath = path
            THEN loading' = loading
            ELSE /\ Len(loading) < MaxLoads
                 /\ loading' = Append(loading, LoadCall("address", path))
    /\ UNCHANGED <<addressLayerLoaded, addressFeatures, addressLayerPath,
                   uniqueStreetCandidates, streetSegmentsLoaded, streetSegments,
                   streetSegmentsPath, lastLookup>>

\* loadLayer 515-564: the file came and was parsed
LoadLayerResolves ==
    /\ LoadUnchanged
    /\ \E i \in 1..Len(loading) :
         /\ loading[i].loader = "address"
         /\ addressFeatures' = LayerContent(loading[i].path)
         /\ addressLayerLoaded' = TRUE
         /\ addressLayerPath' = loading[i].path
         /\ loading' = RemoveAt(loading, i)
    /\ lastLookup' = NoLookup
    /\ UNCHANGED <<uniqueStreetCandidates, streetSegmentsLoaded, streetSegments,
                   streetSegmentsPath, lastLoad>>

\* loadLayer 520-522, 529-531, 565-571 and loadStreetSegmentsLayer 882-890,
\* 922-925: the fetch failed or the file is no feature collection
LoadRejects ==
    /\ LoadUnchanged
    /\ \E i \in 1..Len(loading) : loading' = RemoveAt(loading, i)
    /\ UNCHANGED <<addressLayerLoaded, addressFeatures, addressLayerPath,
                   uniqueStreetCandidates, streetSegmentsLoaded, streetSegments,
                   streetSegmentsPath, lastLoad, lastLookup>>

\* loadStreetSegmentsLayer 860-880 (ensureStreetSegmentsLoaded 934-938 asks
\* the same question before it calls): the call up to its fetch
LoadSegmentsCalled ==
    /\ LoadUnchanged
    /\ \E path \in SegmentPaths :
         /\ lastLoad' = [def |-> TRUE, loader |-> "segments", path |-> path,
                         current |-> streetSegmentsLoaded /\ streetSegmentsPath = path,
                         fetched |-> ~(streetSegmentsLoaded /\ Len(streetSegments) > 0)]
         /\ IF streetSegmentsLoaded /\ Len(streetSegments) > 0
            THEN loading' = loading
            ELSE /\ Len(loading) < MaxLoads
                 /\ loading' = Append(loading, LoadCall("segments", path))
    /\ UNCHANGED <<addressLayerLoaded, addressFeatures, addressLayerPath,
                   uniqueStreetCandidates, streetSegmentsLoaded, streetSegments,
                   streetSegmentsPath, lastLookup>>

\* loadStreetSegmentsLayer 880-921: the file came and was parsed
LoadSegmentsResolves ==
    /\ LoadUnchanged
    /\ \E i \in 1..Len(loading) :
         /\ loading[i].loader = "segments"
         /\ streetSegments' = SegmentContent(loading[i].path)
         /\ streetSegmentsLoaded' = TRUE
         /\ streetSegmentsPath' = loading[i].path
         /\ loading' = RemoveAt(loading, i)
    /\ UNCHANGED <<addressLayerLoaded, addressFeatures, addressLayerPath,
                   uniqueStreetCandidates, lastLoad, lastLookup>>

\* lookupAddress 719-847
LookupAddressCalled ==
    /\ LoadUnchanged
    /\ \E streetName \in LookupStreets, houseNumber \in LookupNumbers :
       \E normalized \in {normalizeStreetName(streetName)} :
       \E exact \in {StreetFeatures(addressFeatures, normalized)} :
       \E reached \in {addressLayerLoaded /\ houseNumber > 0 /\ exact = << >>} :
       \E kept \in {IF reached
                    THEN CandidatesKept(uniqueStreetCandidates, addressFeatures)
                    ELSE uniqueStreetCandidates} :
         /\ uniqueStreetCandidates' = kept
         /\ lastLookup' = LookupMade(addressLayerLoaded, addressFeatures, kept.v,
                                     normalized, exact, streetName, houseNumber)
    /\ UNCHANGED <<addressLayerLoaded, addressFeatures, addressLayerPath,
                   streetSegmentsLoaded, streetSegments, streetSegmentsPath,
                   loading, lastLoad>>

GisNext ==
    \/ LoadLayerCalled
    \/ LoadLayerResolves
    \/ LoadRejects
    \/ LoadSegmentsCalled
    \/ LoadSegmentsResolves
    \/ LookupAddressCalled

SpecGis == GisInit /\ [][GisNext]_vars

(***************************************************************************)
(* Properties of the loaders and of lookupAddress (SpecGis)                *)
(***************************************************************************)

\* C22: a loader called with the path whose data it holds performs no new
\* fetch or parse (a call that does not fetch changes nothing: it returns
\* before any assignment).  loadLayer keeps this; loadStreetSegmentsLayer
\* does not when the file it loaded has no street name.
C22_NoFetchOfLoadedPath ==
    (lastLoad.def /\ lastLoad.current) => ~lastLoad.fetched

\* the part of C22 that loadLayer keeps
LoadLayerSkipsLoadedPath ==
    (lastLoad.def /\ lastLoad.loader = "address" /\ lastLoad.current)
        => ~lastLoad.fetched

LoadLayerSkipsLoadedPath_Reached ==
    /\ lastLoad.def /\ lastLoad.loader = "address" /\ lastLoad.current
    /\ loading = << >>

\* the features of the street a lookup resolved, below and above its number
LowerOf(look) ==
    {i \in 1..Len(look.streetFeatures) :
        look.streetFeatures[i].houseNumber < look.houseNumber}

UpperOf(look) ==
    {i \in 1..Len(look.streetFeatures) :
        look.streetFeatures[i].houseNumber > look.houseNumber}

\* the feature with the nearest lower number, and with the nearest upper one
NearestLower(look) ==
    look.streetFeatures[CHOOSE i \in LowerOf(look) : \A j \in LowerOf(look) :
        look.streetFeatures[j].houseNumber <= look.streetFeatures[i].houseNumber]

NearestUpper(look) ==
    look.streetFeatures[CHOOSE i \in UpperOf(look) : \A j \in UpperOf(look) :
        look.streetFeatures[i].houseNumber <= look.streetFeatures[j].houseNumber]

NumberAbsent(look) ==
    /\ look.def
    /\ look.streetFeatures # << >>
    /\ \A i \in 1..Len(look.streetFeatures) :
          look.streetFeatures[i].houseNumber # look.houseNumber

\* p lies on the segment from a to b at the fraction (n - a.n)/(b.n - a.n)
AtFraction(p, a, b, n) ==
    /\ (p.lat - a.lat) * (b.houseNumber - a.houseNumber)
           = (b.lat - a.lat) * (n - a.houseNumber)
    /\ (p.lon - a.lon) * (b.houseNumber - a.houseNumber)
           = (b.lon - a.lon) * (n - a.houseNumber)

\* C23: for a resolved street that does not carry the number asked for, the
\* lookup returns a coordinate iff the street has a lower and a higher
\* number; the coordinate is the linear interpolation between the nearest
\* lower and the nearest higher number, with confidence 0.8, or 0.7 when the
\* street was matched fuzzily; between the points of 4 and 8 the number 6 is
\* the middle point.
C23_InterpolationBetweenNeighbours ==
    NumberAbsent(lastLookup) =>
        /\ lastLookup.found <=>
              (LowerOf(lastLookup) # {} /\ UpperOf(lastLookup) # {})
        /\ lastLookup.found =>
              /\ AtFraction(lastLookup, NearestLower(lastLookup),
                            NearestUpper(lastLookup), lastLookup.houseNumber)
              /\ lastLookup.confidence = IF lastLookup.fuzzyUsed THEN 70 ELSE 80
        /\ (/\ lastLookup.found
            /\ lastLookup.houseNumber = 6
            /\ NearestLower(lastLookup).houseNumber = 4
            /\ NearestUpper(lastLookup).houseNumber = 8)
              => /\ 2 * lastLookup.lat = NearestLower(lastLookup).lat
                                         + NearestUpper(lastLookup).lat
                 /\ 2 * lastLookup.lon = NearestLower(lastLookup).lon
                                         + NearestUpper(lastLookup).lon

\* the number 6 between the points of 4 and 8 of an exactly named street
C23_Witness ==
    /\ NumberAbsent(lastLookup)
    /\ lastLookup.streetName = <<"Herzl">>
    /\ lastLookup.houseNumber = 6
    /\ ~lastLookup.fuzzyUsed
    /\ [lat |-> lastLookup.lat, lon |-> lastLookup.lon] = [lat |-> 6200, lon |-> 8100]
    /\ lastLookup.confidence = 80

\* a fuzzily matched street: an interpolation of confidence 0.7
FuzzyInterpolation_Reached ==
    /\ NumberAbsent(lastLookup) /\ lastLookup.fuzzyUsed /\ lastLookup.found
    /\ lastLookup.confidence = 70

\* a resolved street without a higher number: no coordinate
NoUpperNeighbour_Reached ==
    /\ NumberAbsent(lastLookup) /\ ~lastLookup.found
    /\ LowerOf(lastLookup) # {} /\ UpperOf(lastLookup) = {}

\* C29: fuzzy street matching goes through exactly the street names of the
\* features now loaded.  The names kept by the first fuzzy lookup are not
\* dropped when loadLayer replaces the features, so this fails after a
\* second dataset was loaded.
C29_CandidatesOfLoadedFeatures ==
    (lastLookup.def /\ lastLookup.consulted)
        => lastLookup.candidates = UniqueStreetCandidates(addressFeatures)

(***************************************************************************)
(* normalization.ts: normalizeAddress applied to its own result.  The      *)
(* address strings are put together from street prefixes, a street name, a *)
(* house number (plain, a range, with an apartment suffix, or none) and    *)
(* the city (plain, after a comma, followed by the country, or none).      *)
(***************************************************************************)
NormPrefixes ==
    {<< >>, <<Rehov>>, <<RahApos>>, <<Rah>>, <<Rehov, RahApos>>,
     <<Rehov, Rehov, Rehov>>, <<Rah, Rah, Rah>>, <<Dash, Rehov>>}

NormStreets == {<<"Herzl">>, <<"Weizmann", "Haim">>, <<"Herzl", Dash, "Weizmann">>}

NormNumbers == {<< >>, <<"5">>, <<"9", Dash, "11">>, <<"10", Slash, "3">>}

NormCities == {<< >>, <<Netivot>>, <<Comma, Netivot>>, <<Netivot, Israel>>}

NormInputs ==
    {p \o s \o n \o c :
        p \in NormPrefixes, s \in NormStreets, n \in NormNumbers, c \in NormCities}

NormUnchanged ==
    UNCHANGED <<clsVars, rowsVars, batchVars, netVars, loadVars, ingestVars,
                limitVars>>

NormInit ==
    /\ clsRow = NewRow(<< >>, Null, NoCoords)
    /\ clsResult = NoResult
    /\ clsType = "UNKNOWN"
    /\ clsOut = NewRow(<< >>, Null, NoCoords)
    /\ RowsQuiet
    /\ BatchQuiet
    /\ NetQuiet
    /\ LoadQuiet
    /\ IngestQuiet
    /\ LimitQuiet
    /\ normRaw \in NormInputs
    /\ normOnce = Null
    /\ normTwice = Null
    /\ normPc = "raw"

\* normalizeAddress(raw)
NormalizeRaw ==
    /\ NormUnchanged
    /\ normPc = "raw"
    /\ normOnce' = normalizeAddress(normRaw)
    /\ normPc' = "once"
    /\ UNCHANGED <<normRaw, normTwice>>

\* normalizeAddress of the result; of null it is null (266-267)
NormalizeAgain ==
    /\ NormUnchanged
    /\ normPc = "once"
    /\ normTwice' = IF normOnce.def THEN normalizeAddress(normOnce.v) ELSE Null
    /\ normPc' = "twice"
    /\ UNCHANGED <<normRaw, normOnce>>

NormNext ==
    \/ NormalizeRaw
    \/ NormalizeAgain

SpecNormalize == NormInit /\ [][NormNext]_vars

(***************************************************************************)
(* Properties of normalizeAddress (SpecNormalize)                          *)
(***************************************************************************)
HasHouseNumber(value) == \E i \in 1..Len(value) : IsNum(value[i])

\* C24: for an address string that contains a house number and the city
\* token, normalizing the normalized string gives the normalized string.
\* It fails where the first call leaves a street prefix at the head of its
\* result, which the second call strips.
C24_NormalizeIdempotent ==
    (normPc = "twice" /\ HasHouseNumber(normRaw) /\ HasNetivot(normRaw))
        => normTwice = normOnce

\* at most one street prefix, or the prefix and its abbreviation, at the
\* very start of the string
FewPrefixes(value) ==
    \E p \in {<< >>, <<Rehov>>, <<RahApos>>, <<Rah>>, <<Rehov, RahApos>>},
       s \in NormStreets :
        /\ Len(value) >= Len(p \o s)
        /\ SubSeq(value, 1, Len(p \o s)) = p \o s

\* where the string starts with few prefixes the second call changes nothing
IdempotentWithFewPrefixes ==
    (normPc = "twice" /\ HasHouseNumber(normRaw) /\ HasNetivot(normRaw)
     /\ FewPrefixes(normRaw))
        => normTwice = normOnce

IdempotentWithFewPrefixes_Reached ==
    /\ normPc = "twice"
    /\ normRaw = <<Rehov, RahApos, "Herzl", Dash, "Weizmann", "9", Dash, "11", Comma, Netivot>>
    /\ normOnce = Some(<<"Herzl", "Weizmann", "10", Comma, Netivot>>)
    /\ normTwice = normOnce

(***************************************************************************)
(* The ingest client (telemetry), with DEBUG_INGEST true.  Time passes in  *)
(* ticks of TickMs; a timer fires when its delay is over, before the next  *)
(* tick; a request takes at least one tick and is aborted by its timer     *)
(* after AbortMs.  Events are counted, not told apart.                     *)
(***************************************************************************)
TickMs == 100

SendDelayMs == 500

AbortMs == 2000

CooldownMs == 60000

BatchSize == 25

FailSafeAfter == 3

\* events the queue holds at most
MaxEvents == 26

SendDelay == SendDelayMs \div TickMs

AbortAfter == AbortMs \div TickMs

NoCooldown == [def |-> FALSE, left |-> 0]

InCooldown == disabledUntil.def /\ disabledUntil.left > 0

\* triggerFailSafe 186-193
triggerFailSafe(g) ==
    [g EXCEPT !.disabledUntil = [def |-> TRUE, left |-> CooldownMs \div TickMs],
              !.eventQueue = 0]

\* checkFailSafe 177-181
checkFailSafe(g) ==
    IF g.consecutiveFailures >= FailSafeAfter THEN triggerFailSafe(g) ELSE g

\* sendBatch 129-163: what the settled request does to the module's state
AfterRequest(g, outcome) ==
    IF outcome = "ok" THEN [g EXCEPT !.consecutiveFailures = 0]
    ELSE IF outcome = "resource"
    THEN triggerFailSafe([g EXCEPT !.consecutiveFailures = @ + 1])
    ELSE checkFailSafe([g EXCEPT !.consecutiveFailures = @ + 1])

IngestUnchanged ==
    UNCHANGED <<clsVars, rowsVars, batchVars, netVars, loadVars, normVars,
                limitVars>>

IngestInit ==
    /\ clsRow = NewRow(<< >>, Null, NoCoords)
    /\ clsResult = NoResult
    /\ clsType = "UNKNOWN"
    /\ clsOut = NewRow(<< >>, Null, NoCoords)
    /\ RowsQuiet
    /\ BatchQuiet
    /\ NetQuiet
    /\ LoadQuiet
    /\ RestQuiet

\* enqueueIngest 40-74 with scheduleSend 79-88
EnqueueIngest ==
    /\ IngestUnchanged
    /\ IF InCooldown
       THEN \* 46-53: during the cooldown the event is dropped
            UNCHANGED <<eventQueue, consecutiveFailures, disabledUntil, sendTimers>>
       ELSE /\ eventQueue < MaxEvents
            /\ disabledUntil' = NoCooldown
            /\ consecutiveFailures' =
                   IF disabledUntil.def THEN 0 ELSE consecutiveFailures
            /\ eventQueue' = eventQueue + 1
            /\ sendTimers' =
                   IF isSending THEN sendTimers ELSE sendTimers \cup {SendDelay}
    /\ UNCHANGED <<isSending, sinceSend, sendGap>>

\* the timer of scheduleSend fires: sendBatch 94-125, up to its fetch
SendTimerFires ==
    /\ IngestUnchanged
    /\ 0 \in sendTimers
    /\ sendTimers' = sendTimers \ {0}
    /\ IF isSending \/ eventQueue = 0 \/ InCooldown
       THEN UNCHANGED <<eventQueue, isSending, sinceSend, sendGap>>
       ELSE /\ isSending' = TRUE
            /\ eventQueue' = IF eventQueue > BatchSize
                             THEN eventQueue - BatchSize ELSE 0
            /\ sendGap' = sinceSend
            /\ sinceSend' = 0
    /\ UNCHANGED <<consecutiveFailures, disabledUntil>>

\* sendBatch 127-171: the request settled (an abort is a "resource" error)
RequestSettles ==
    /\ IngestUnchanged
    /\ isSending
    /\ sinceSend >= 1
    /\ \E outcome \in IF sinceSend = AbortAfter THEN {"resource"}
                      ELSE {"ok", "http", "resource", "other"} :
       \E g \in {AfterRequest([consecutiveFailures |-> consecutiveFailures,
                               disabledUntil |-> disabledUntil,
                               eventQueue |-> eventQueue], outcome)} :
         /\ consecutiveFailures' = g.consecutiveFailures
         /\ disabledUntil' = g.disabledUntil
         /\ eventQueue' = g.eventQueue
         /\ sendTimers' = IF g.eventQueue > 0
                          THEN sendTimers \cup {SendDelay} ELSE sendTimers
    /\ isSending' = FALSE
    /\ sinceSend' = Min2(sinceSend, SendDelay)
    /\ UNCHANGED sendGap

\* one tick passes: no timer is due, and the abort timer has not run out
IngestTick ==
    /\ IngestUnchanged
    /\ 0 \notin sendTimers
    /\ ~(isSending /\ sinceSend = AbortAfter)
    /\ sendTimers' = {t - 1 : t \in sendTimers}
    /\ sinceSend' = IF sinceSend = -1 THEN -1
                    ELSE IF isSending THEN sinceSend + 1
                    ELSE Min2(sinceSend + 1, SendDelay)
    /\ disabledUntil' = IF InCooldown
                        THEN [disabledUntil EXCEPT !.left = @ - 1]
                        ELSE disabledUntil
    /\ UNCHANGED <<eventQueue, isSending, consecutiveFailures, sendGap>>

IngestNext ==
    \/ EnqueueIngest
    \/ SendTimerFires
    \/ RequestSettles
    \/ IngestTick

SpecIngest == IngestInit /\ [][IngestNext]_vars

(***************************************************************************)
(* Properties of the ingest client (SpecIngest)                            *)
(***************************************************************************)

\* C25: any two consecutive batch sends start at least 500 ms apart.  Every
\* enqueueIngest made while no request is out sets a timer of its own, so a
\* second timer may fire right after a request has settled.
C25_SendsHalfASecondApart ==
    sendGap # -1 => sendGap * TickMs >= SendDelayMs

(***************************************************************************)
(* Properties of the coordinates a finished row carries (SpecRows)         *)
(***************************************************************************)

\* excel.ts exportExcel 32-47: what the export writes into the latitude and
\* longitude cells of a row; NoCoords stands for two empty cells, and a row
\* without final coordinates that was not skipped keeps its cells
exportExcel(row) ==
    IF row.finalCoords.def THEN row.finalCoords
    ELSE IF row.status = "SKIPPED" THEN NoCoords
    ELSE row.originalCoords

\* C26: a row that ends SKIPPED or NOT_FOUND carries no final coordinates,
\* and the export writes no new coordinates into its cells.
\* applyGeocodingResult stores the coordinates of every result it is given,
\* also of one whose confidence maps to NOT_FOUND.
C26_NoCoordinatesWithoutMatch ==
    pc = "done" =>
        \A i \in 1..Len(results) :
            results[i].status \in {"SKIPPED", "NOT_FOUND"}
                => /\ ~results[i].finalCoords.def
                   /\ exportExcel(results[i]) \in {NoCoords, results[i].originalCoords}

\* the part of C26 that holds: a skipped row carries no final coordinates
\* and is exported with empty cells
SkippedRowsExportedEmpty ==
    pc = "done" =>
        \A i \in 1..Len(results) :
            results[i].status = "SKIPPED"
                => /\ ~results[i].finalCoords.def
                   /\ exportExcel(results[i]) = NoCoords

SkippedRowsExportedEmpty_Reached ==
    /\ pc = "done"
    /\ \E i \in 1..Len(results) : results[i].status = "SKIPPED"

\* a row for which no source returned a result ends without final coordinates
NoResultNoCoordinates ==
    pc = "done" =>
        \A i \in 1..Len(results) :
            (i <= Len(traces) /\ ~traces[i].result.def) => ~results[i].finalCoords.def

NoResultNoCoordinates_Reached ==
    /\ pc = "done"
    /\ \E i \in 1..Len(results) :
          /\ i <= Len(traces) /\ ~traces[i].result.def
          /\ results[i].status = "NOT_FOUND"

(***************************************************************************)
(* Properties of the classifier on low confidences (SpecClassify)          *)
(***************************************************************************)

\* C27: a result whose confidence is below 0.6 never ends CONFIRMED, whatever
\* its source, the kind of the address, the position of the point and the
\* distance to a prior coordinate.
C27_LowConfidenceNeverConfirmed ==
    (Applied /\ clsResult.confidence < 60) => clsOut.status # "CONFIRMED"

\* a result of confidence 0.59 inside the box, at 100 m or less from the
\* prior coordinate, was raised by the distance rule and is not CONFIRMED
C27_Witness ==
    /\ Applied /\ clsResult.confidence = 59
    /\ ClsInBounds /\ ClsHasOriginal /\ ClsDistance <= 100
    /\ clsOut.status = "NEEDS_REVIEW"

(***************************************************************************)
(* Properties of the worker pool (SpecBatch)                               *)
(***************************************************************************)
SeqSet(s) == {s[i] : i \in 1..Len(s)}

\* the workers that await geocodeNetivot
Geocoding == {w \in 1..Concurrency : workers[w].pc = "geocode"}

HandledAddresses == {e.address : e \in handled}

\* every worker of the pool has left its loop: Promise.all resolves
WorkersFinished ==
    isProcessing /\ \A w \in 1..Concurrency : workers[w].pc \in {"done", "none"}

\* where the addresses of the running batch are: in the queue, with a
\* worker, or handled
AddressPlaces ==
    SeqSet(queue) \cup {workers[w].address : w \in Geocoding} \cup HandledAddresses

\* no address is in two places, with two workers or handled twice
EachAddressInOnePlace ==
    isProcessing =>
        /\ \A e \in handled : e.times = 1
        /\ \A i, j \in 1..Len(queue) : queue[i] = queue[j] => i = j
        /\ \A v, w \in Geocoding :
              workers[v].address = workers[w].address => v = w
        /\ \A w \in Geocoding :
              /\ workers[w].address \notin SeqSet(queue)
              /\ workers[w].address \notin HandledAddresses
        /\ SeqSet(queue) \cap HandledAddresses = {}
        /\ WorkersFinished => AddressPlaces = HandledAddresses

\* the batch starts with the addresses of the list, and no step of the
\* batch loses or adds one
NoAddressLost ==
    /\ (~isProcessing /\ isProcessing')
          => AddressPlaces' = SeqSet(addressesToGeocode(rows))
    /\ (isProcessing /\ isProcessing') => AddressPlaces' = AddressPlaces

\* C28: for either width and every list of addresses, each address of the
\* list is at any time in exactly one place (in the queue, with one worker,
\* or handled once) and none gets lost, so that when the workers have
\* finished, and only then batchGeocode returns, every address has been
\* handled exactly once, from the cache or through the provider chain.
C28_EachAddressHandledOnce ==
    [](EachAddressInOnePlace) /\ [][NoAddressLost]_vars

\* a single worker has finished a list of two addresses, one served from
\* the cache and one looked up through the provider chain
C28_Witness ==
    /\ WorkersFinished
    /\ workers[2].pc = "none"
    /\ Cardinality(handled) = 2
    /\ \E e \in handled : e.how = "cache"
    /\ \E e \in handled : e.how = "chain"

\* two workers of a pool of three await the provider chain for two addresses
TwoWorkersBusy_Reached ==
    /\ isProcessing /\ Cardinality(Geocoding) = 2 /\ workers[3].pc = "done"

-----------------------------------------------------------------------------
\* api/geocode.ts: the geocode proxy and its per-IP rate limit

WINDOW_MS == 60000

MAX_REQ_PER_WINDOW == 60

CACHE_TTL_MS == 60000

\* the step of the proxy's clock; requests of one step share their Date.now()
ClockStepMs == 60000

\* the clock stops after this many steps
MaxClockSteps == 2

\* the requests the busy client sends in one window
MaxHits == 62

\* the requests any other client sends in one window
MaxOtherHits == 2

BusyIp == "10.0.0.1"

Methods == {"GET", "OPTIONS", "POST"}

ProxyProviders == {"auto", "govmap"}

\* req.query.q after String(...).trim(): absent, or an address
Queries == {"", "herzl 4"}

\* what the two providers answer: fetchJson's ok of GovMap and of Nominatim
Upstreams == {<<TRUE, TRUE>>, <<FALSE, TRUE>>, <<FALSE, FALSE>>}

CeilDiv(a, b) == (a + b - 1) \div b

\* Math.max(1, x)
AtLeastOne(x) == IF x >= 1 THEN x ELSE 1

\* a limiter that lets one request more through
rateLimitLate(h, ip, t) ==
    LET rec == h[ip]
    IN  IF ~rec.def \/ t > rec.reset
        THEN [hits |-> [h EXCEPT ![ip] =
                           [def |-> TRUE, reset |-> t + WINDOW_MS, count |-> 1]],
              ok |-> TRUE, retryAfterSec |-> 0]
        ELSE LET count == rec.count + 1
                 counted == [h EXCEPT ![ip].count = count]
             IN  IF count > MAX_REQ_PER_WINDOW + 1
                 THEN [hits |-> counted, ok |-> FALSE,
                       retryAfterSec |-> AtLeastOne(CeilDiv(rec.reset - t, 1000))]
                 ELSE [hits |-> counted, ok |-> TRUE, retryAfterSec |-> 0]

\* rateLimit 38-51, on the map h at time t: the map afterwards and the verdict
rateLimit(h, ip, t) ==
    LET rec == h[ip]
    IN  IF ~rec.def \/ t > rec.reset
        THEN [hits |-> [h EXCEPT ![ip] =
                           [def |-> TRUE, reset |-> t + WINDOW_MS, count |-> 1]],
              ok |-> TRUE, retryAfterSec |-> 0]
        ELSE LET count == rec.count + 1
                 counted == [h EXCEPT ![ip].count = count]
             IN  IF count > MAX_REQ_PER_WINDOW
                 THEN [hits |-> counted, ok |-> FALSE,
                       retryAfterSec |-> AtLeastOne(CeilDiv(rec.reset - t, 1000))]
                 ELSE [hits |-> counted, ok |-> TRUE, retryAfterSec |-> 0]

\* the IP may send one more request at time t
MaySend(ip, t) ==
    \/ ~hits[ip].def
    \/ t > hits[ip].reset
    \/ hits[ip].count < (IF ip = BusyIp THEN MaxHits ELSE MaxOtherHits)

\* the request at time t falls into the window the IP's first counted request
\* opened
InWindow(ip, t) == served[ip].def /\ t <= served[ip].start + WINDOW_MS

\* the history of the IP's windows after a GET request at time t that the
\* limiter let pass (ok) or not
Serve(ip, t, ok) ==
    LET one == IF ok THEN 1 ELSE 0
    IN  IF InWindow(ip, t)
        THEN [served EXCEPT ![ip].passed = @ + one]
        ELSE [served EXCEPT ![ip] = [def |-> TRUE, start |-> t, passed |-> one]]

Response(ip, method, status, upstream, further) ==
    [def |-> TRUE, ip |-> ip, method |-> method, status |-> status,
     upstream |-> upstream, further |-> further]

LimitUnchanged ==
    UNCHANGED <<clsVars, rowsVars, batchVars, netVars, loadVars, normVars,
                ingestVars>>

LimitInit ==
    /\ clsRow = NewRow(<< >>, Null, NoCoords)
    /\ clsResult = NoResult
    /\ clsType = "UNKNOWN"
    /\ clsOut = NewRow(<< >>, Null, NoCoords)
    /\ RowsQuiet
    /\ BatchQuiet
    /\ NetQuiet
    /\ LoadQuiet
    /\ RestQuiet

\* handler 85-86: OPTIONS is answered 204 and any other method but GET 405,
\* before the limiter is asked
ProxyOtherMethod ==
    /\ LimitUnchanged
    /\ \E ip \in ClientIps, method \in Methods \ {"GET"} :
        /\ lastResponse' =
               Response(ip, method, IF method = "OPTIONS" THEN 204 ELSE 405,
                        0, FALSE)
        /\ UNCHANGED <<hits, proxyCache, proxyNow, served>>

\* handler 79-173 for a GET request, with the answers of the providers it
\* awaits
ProxyGet ==
    /\ LimitUnchanged
    /\ \E ip \in {c \in ClientIps : MaySend(c, proxyNow)},
          provider \in ProxyProviders, q \in Queries, up \in Upstreams :
        \E rl \in {rateLimit(hits, ip, proxyNow)} :
            LET further == InWindow(ip, proxyNow)
                             /\ served[ip].passed >= MAX_REQ_PER_WINDOW
                cacheKey == provider \o ":" \o q
                cached == proxyCache[cacheKey]
                fresh == [def |-> TRUE, expires |-> proxyNow + CACHE_TTL_MS]
                answer(status, upstream) ==
                    Response(ip, "GET", status, upstream, further)
            IN  /\ hits' = rl.hits
                /\ served' = Serve(ip, proxyNow, rl.ok)
                /\ UNCHANGED proxyNow
                /\ IF ~rl.ok
                   THEN \* 89-93
                        /\ lastResponse' = answer(429, 0)
                        /\ UNCHANGED proxyCache
                   ELSE IF q = ""
                   THEN \* 101-103
                        /\ lastResponse' = answer(400, 0)
                        /\ UNCHANGED proxyCache
                   ELSE IF cached.def /\ cached.expires > proxyNow
                   THEN \* 105-108
                        /\ lastResponse' = answer(200, 0)
                        /\ UNCHANGED proxyCache
                   ELSE IF up[1]
                   THEN \* 113-138: GovMap answered
                        /\ lastResponse' = answer(200, 1)
                        /\ proxyCache' = [proxyCache EXCEPT ![cacheKey] = fresh]
                   ELSE IF provider = "govmap"
                   THEN \* 140-142
                        /\ lastResponse' = answer(502, 1)
                        /\ UNCHANGED proxyCache
                   ELSE IF up[2]
                   THEN \* 146-170: Nominatim answered
                        /\ lastResponse' = answer(200, 2)
                        /\ proxyCache' = [proxyCache EXCEPT ![cacheKey] = fresh]
                   ELSE \* 172
                        /\ lastResponse' = answer(502, 2)
                        /\ UNCHANGED proxyCache

\* time passes in the proxy's process
ProxyTick ==
    /\ LimitUnchanged
    /\ proxyNow < MaxClockSteps * ClockStepMs
    /\ proxyNow' = proxyNow + ClockStepMs
    /\ UNCHANGED <<hits, proxyCache, served, lastResponse>>

LimitNext ==
    \/ ProxyOtherMethod
    \/ ProxyGet
    \/ ProxyTick

SpecLimit == LimitInit /\ [][LimitNext]_vars

\* C30: within one rate-limit window of a client IP (the 60 s that start at
\* the IP's first counted request) at most 60 GET requests of the IP get past
\* the limiter, and every further GET request of the IP in the window is
\* answered 429 with no call to a provider
C30_SixtyPerWindow ==
    /\ \A ip \in ClientIps : served[ip].passed <= MAX_REQ_PER_WINDOW
    /\ (lastResponse.def /\ lastResponse.further)
          => (lastResponse.status = 429 /\ lastResponse.upstream = 0)

\* the 61st GET request of a window was answered 429 although the address
\* was neither empty nor cached, while the other IP is still served
C30_Witness ==
    /\ lastResponse.def /\ lastResponse.further
    /\ lastResponse.ip = "10.0.0.1"
    /\ lastResponse.status = 429
    /\ served["10.0.0.1"].passed = MAX_REQ_PER_WINDOW
    /\ hits["10.0.0.1"].count = MAX_REQ_PER_WINDOW + 1
    /\ served["10.0.0.2"].passed = 1

\* a request at the very end of the window (Date.now() = reset) is still
\* counted in it and rejected
RejectedAtWindowEnd_Reached ==
    /\ lastResponse.def /\ lastResponse.further /\ lastResponse.status = 429
    /\ proxyNow = hits[lastResponse.ip].reset

\* after the window a new one starts and the IP is served again
NewWindowServed_Reached ==
    /\ lastResponse.def /\ lastResponse.status = 200 /\ lastResponse.upstream = 1
    /\ proxyNow > 0
    /\ hits[lastResponse.ip].count = 1
    /\ hits[lastResponse.ip].reset = proxyNow + WINDOW_MS
=============================================================================
